---------------------------- MODULE Spec2Model ----------------------------
(***************************************************************************)
(* A model of the components of the rita mesh daemon:                     *)
(*                                                                         *)
(*   - the exit switcher of the client (set_best_exit and its helpers,     *)
(*     rita_client/src/exit_manager/exit_switcher.rs), checked under       *)
(*     SpecExit;                                                           *)
(*   - the blockchain oracle and the chain queries of the common loop      *)
(*     (rita/src/rita_common/blockchain_oracle/mod.rs and                  *)
(*     rita/src/rita_common/rita_loop/mod.rs), checked under SpecOracle;   *)
(*   - the operator fee manager                                            *)
(*     (rita/src/rita_client/operator_fee_manager/mod.rs), checked under   *)
(*     SpecFee;                                                            *)
(*   - Identity, its equality and its hash                                 *)
(*     (althea_types/src/interop.rs), checked under SpecIdentity;          *)
(*   - the neighbor chain of the common loop: GetNeighbors, Watch,         *)
(*     SendUpdate (rita/src/rita_common/rita_loop/mod.rs), checked under   *)
(*     SpecLoop;                                                           *)
(*   - the ledger of DebtKeeper and the PaymentController, checked under   *)
(*     SpecDebt;                                                           *)
(*   - two ExitServers on the statics of the exit switcher, checked under  *)
(*     SpecShared;                                                         *)
(*   - the monitor of the routing daemon (src/lib.rs): Babel::read and     *)
(*     the parsers of a dump reply, checked under SpecBabel.               *)
(*                                                                         *)
(* Option<T> is a sequence of length 0 (None) or 1 (Some(v)).              *)
(***************************************************************************)
EXTENDS Integers, Sequences, FiniteSets, TLC

VARIABLES
    \* ---- exit switcher -------------------------------------------------
    selected_exit,   \* ExitServer.selected_exit : SelectedExit
    metric_values,   \* the lazy static METRIC_VALUES : Vec<u16>
    exit_tracker,    \* the lazy static EXIT_TRACKER : HashMap<IpAddr, ExitTracker>
    panicked,        \* TRUE once a panic!/expect/unwrap has fired
    exit_ticks,      \* number of set_best_exit calls so far
    exit_ev,         \* history: what the last set_best_exit call saw and returned
    acct,            \* history: per exit, the per-tick minima summed since the last reset
    \* ---- shared ---------------------------------------------------------
    now,             \* the monotonic clock (Instant::now()), in seconds
    payment_settings,  \* SETTING.get_payment() : PaymentSettings
    \* ---- blockchain oracle and the chain queries of the common loop ------
    zero_window,     \* BlockchainOracle.zero_window : Option<Instant>
    oracle_reqs,     \* the join4 futures spawned by Handler<Update>, oldest first
    rl_reqs,         \* per query, the futures spawned by RitaLoop's Tick and not yet resolved
    oracle_steps,    \* number of steps taken so far under SpecOracle
    oracle_ev,       \* history: the last step and what the full node replied in it
    \* ---- operator fee manager -------------------------------------------
    operator_settings,  \* SETTING.get_operator()
    identity,        \* SETTING.get_identity() : Option<Identity>
    last_payment_time,  \* OperatorFeeManager.last_payment_time : Instant
    fee_broadcasts,  \* the eth_send_raw_transaction futures not yet resolved, oldest first
    fee_mailbox,     \* SuccessfulPayment messages sent to the manager and not yet handled
    fee_panicked,    \* TRUE once the expect on the private key has fired
    fee_steps,       \* number of steps taken so far under SpecFee
    fee_sends,       \* history: number of transactions broadcast since boot
    fee_ev,          \* history: the last step and, for a Tick, what it computed
    \* ---- Identity ---------------------------------------------------------
    id_ev,           \* history: the two identities last compared and what came out
    \* ---- the neighbor chain of the common loop ---------------------------
    loop_chains,     \* per Tick of RitaLoop so far, how far its spawned future has got
    tw_mailbox,      \* the Watch messages TrafficWatcher has not handled yet, oldest first
    dk_mailbox,      \* the SendUpdate messages DebtKeeper has not handled yet, oldest first
    loop_panicked,   \* TRUE once the unwrap on the GetNeighbors reply has fired
    loop_ev,         \* history: the last step, and per tick the steps its chain has taken
    \* ---- DebtKeeper and PaymentController --------------------------------
    debt_data,       \* per neighbor, its ledger: debt and payment_in_flight
    payments,        \* the MakePayment intents not yet answered to DebtKeeper, by stage
    debt_steps,      \* number of steps taken so far under SpecDebt
    debt_ev,         \* history: the last step and, for a SendUpdate, the intents it emitted
    inbound,         \* per neighbor, the txids applied; history: the debt changes per txid
    \* ---- a second ExitServer on the same lazy statics --------------------
    other_exit,      \* the selected_exit of a second ExitServer : SelectedExit
    \* ---- the monitor of the routing daemon ------------------------------
    babel            \* a reader of the daemon's socket, or a reply and how it was parsed

exit_vars == <<selected_exit, metric_values, exit_tracker, panicked, exit_ticks,
               exit_ev, acct>>

oracle_vars == <<zero_window, oracle_reqs, rl_reqs, oracle_steps, oracle_ev>>

shared_vars == <<now, payment_settings>>

fee_vars == <<operator_settings, identity, last_payment_time, fee_broadcasts,
              fee_mailbox, fee_panicked, fee_steps, fee_sends, fee_ev>>

identity_vars == <<id_ev>>

loop_vars == <<loop_chains, tw_mailbox, dk_mailbox, loop_panicked, loop_ev>>

debt_vars == <<debt_data, payments, debt_steps, debt_ev, inbound>>

server_vars == <<other_exit>>

babel_vars == <<babel>>

common_vars == <<identity_vars, loop_vars, debt_vars, server_vars, babel_vars>>

vars == <<exit_vars, shared_vars, oracle_vars, fee_vars, common_vars>>

None == <<>>
Some(v) == <<v>>
IsSome(o) == Len(o) = 1
IsNone(o) == Len(o) = 0
Unwrap(o) == o[1]
UnwrapOr(o, d) == IF IsSome(o) THEN o[1] ELSE d

U16_MAX == 65535

(***************************************************************************)
(* Bounds of the model.                                                    *)
(***************************************************************************)
\* capacity of METRIC_VALUES; the program uses (15 * 60) / 5 = 180, its own
\* unit test uses 10.  The window logic only compares len with capacity.
METRIC_ENTRIES == 2
\* longest route snapshot handed to set_best_exit
MaxRoutes == 2
\* runs of the exit manager are followed for METRIC_ENTRIES + MaxExtraTicks
\* ticks: a failover, a change of the tracked exit, a window filled by the
\* tracked exit, and the tick that acts on the full window
MaxExtraTicks == 3

(***************************************************************************)
(* Addresses and the exit subnet.                                          *)
(***************************************************************************)
Ipv4(a, b, c, d) == [v4 |-> TRUE, addr |-> ((a * 256 + b) * 256 + c) * 256 + d]

\* IpNetwork::new(ip, prefix)
IpNetwork(ip, prefix) == [v4 |-> ip.v4, addr |-> ip.addr, prefix |-> prefix]

\* IpNetwork::contains for a v4 network: the first `prefix` bits agree
NetworkContains(net, ip) ==
    LET bits == IF net.v4 THEN 32 ELSE 128
        unit == 2 ^ (bits - net.prefix)
    IN  (ip.addr \div unit) = (net.addr \div unit)

\* every address of the subnet's family taken for an address of the subnet
check_ip_in_subnet_SameFamily(ip, exits) == ip.v4 = exits.v4

check_ip_in_subnet(ip, exits) ==
    IF ip.v4 # exits.v4 THEN FALSE ELSE NetworkContains(exits, ip)

\* the configured exit subnet and the addresses routes are advertised for
ExitSubnet == IpNetwork(Ipv4(1, 1, 1, 1), 20)
ExitA == Ipv4(1, 1, 1, 1)
ExitB == Ipv4(1, 1, 7, 127)
NotExit == Ipv4(1, 1, 20, 127)
RouteIPs == {ExitA, ExitB, NotExit}
CandidateIPs == {ip \in RouteIPs : check_ip_in_subnet(ip, ExitSubnet)}

\* metrics babel may report for a route (u16)
Metrics == {0, 80, 100, U16_MAX}
Routes == [prefix_ip : CandidateIPs, metric : Metrics]
              \cup {[prefix_ip |-> NotExit, metric |-> 80]}
Snapshots == UNION {[1..n -> Routes] : n \in 0..MaxRoutes}

(***************************************************************************)
(* ExitTracker and the tracker map.                                        *)
(***************************************************************************)
ExitTracker(last_added_metric, running_total, ticker_len) ==
    [last_added_metric |-> last_added_metric,
     running_total |-> running_total,
     ticker_len |-> ticker_len]

MapInsert(m, k, v) == [x \in (DOMAIN m) \cup {k} |-> IF x = k THEN v ELSE m[x]]

\* u16::checked_sub
checked_sub(a, b) == IF a >= b THEN Some(a - b) ELSE None

\* `as u16` of a u64
AsU16(n) == n % 65536

observe_cluster_metrics(exit_map, ip, met) ==
    IF ip \notin DOMAIN exit_map
    THEN MapInsert(exit_map, ip, ExitTracker(met, met, 1))
    ELSE LET exit == exit_map[ip]
         IN  IF exit.last_added_metric = 0
             THEN [exit_map EXCEPT ![ip] =
                      ExitTracker(met, exit.running_total + met, exit.ticker_len + 1)]
             ELSE IF met < exit.last_added_metric
             THEN [exit_map EXCEPT ![ip] =
                      ExitTracker(met,
                                  (exit.running_total - exit.last_added_metric) + met,
                                  exit.ticker_len)]
             ELSE exit_map

\* the u64 subtraction of observe_cluster_metrics goes below zero
observe_underflows(exit_map, ip, met) ==
    /\ ip \in DOMAIN exit_map
    /\ exit_map[ip].last_added_metric # 0
    /\ met < exit_map[ip].last_added_metric
    /\ exit_map[ip].running_total < exit_map[ip].last_added_metric

set_last_added_to_zero(exit_map) ==
    [ip \in DOMAIN exit_map |-> [exit_map[ip] EXCEPT !.last_added_metric = 0]]

reset_exit_tracking_KeepTotal(exit_map) ==
    [ip \in DOMAIN exit_map |->
        ExitTracker(0, exit_map[ip].running_total, 0)]

reset_exit_tracking(exit_map) ==
    [ip \in DOMAIN exit_map |-> ExitTracker(0, 0, 0)]

\* Vec<u16> average; the caller never passes an empty vector unchecked
calculate_average(vals) ==
    LET SumTo[i \in 0..Len(vals)] == IF i = 0 THEN 0 ELSE SumTo[i - 1] + vals[i]
    IN  AsU16(SumTo[Len(vals)] \div Len(vals))

(***************************************************************************)
(* get_exit_metrics: one pass over the routes.                             *)
(***************************************************************************)
ExitMetrics(is_exit_down, cur_exit, cur_exit_babel_met, tracking_exit, tracking_met, best_exit, best_exit_met) ==
    [is_exit_down |-> is_exit_down,
     cur_exit |-> cur_exit,
     cur_exit_babel_met |-> cur_exit_babel_met,
     tracking_exit |-> tracking_exit,
     tracking_met |-> tracking_met,
     best_exit |-> best_exit,
     best_exit_met |-> best_exit_met]

\* a route that a bug would take for proof that the current exit is up: the
\* test of the route's own metric is missing
CurrentExitRouteIsUp_AnyMetric(exit_ip, ip, route_metric, initial_best_metric) ==
    exit_ip = ip /\ initial_best_metric # U16_MAX

\* any finite route into the subnet taken for a route to the current exit
CurrentExitRouteIsUp_AnyExit(exit_ip, ip, route_metric, initial_best_metric) ==
    route_metric # U16_MAX /\ initial_best_metric # U16_MAX

\* the route shows that the current exit is up: it leads to the exit, its
\* metric is not infinite and the advertised metric of the exit is set
CurrentExitRouteIsUp(exit_ip, ip, route_metric, initial_best_metric) ==
    exit_ip = ip /\ route_metric # U16_MAX /\ initial_best_metric # U16_MAX

\* the body of the `for route in routes` loop
RouteStep(acc, route, exits, current_exit_ip, tracking_exit, initial_best_metric) ==
    LET ip == route.prefix_ip
    IN  IF ~check_ip_in_subnet(ip, exits)
        THEN acc
        ELSE LET cur_hit == /\ IsSome(current_exit_ip)
                            /\ CurrentExitRouteIsUp(Unwrap(current_exit_ip), ip,
                                                    route.metric, initial_best_metric)
                 trk_hit == /\ IsSome(tracking_exit)
                            /\ Unwrap(tracking_exit) = ip
                            /\ route.metric # U16_MAX
                 better == route.metric < acc.best_metric
             IN  [current_exit_down |->
                      IF cur_hit THEN FALSE ELSE acc.current_exit_down,
                  current_exit_metric |->
                      IF cur_hit /\ acc.current_exit_metric > route.metric
                      THEN route.metric ELSE acc.current_exit_metric,
                  tracking_metric |->
                      IF trk_hit /\ acc.tracking_metric > route.metric
                      THEN route.metric ELSE acc.tracking_metric,
                  exit_map |-> observe_cluster_metrics(acc.exit_map, ip, route.metric),
                  underflow |-> acc.underflow
                                  \/ observe_underflows(acc.exit_map, ip, route.metric),
                  best_metric |-> IF better THEN route.metric ELSE acc.best_metric,
                  best_exit |-> IF better THEN Some(ip) ELSE acc.best_exit]

RECURSIVE RouteLoop(_, _, _, _, _, _, _)
RouteLoop(routes, i, acc, exits, current_exit_ip, tracking_exit, initial_best_metric) ==
    IF i > Len(routes)
    THEN acc
    ELSE RouteLoop(routes, i + 1,
                   RouteStep(acc, routes[i], exits, current_exit_ip, tracking_exit,
                             initial_best_metric),
                   exits, current_exit_ip, tracking_exit, initial_best_metric)

\* returns the ExitMetrics, the tracker map as the call leaves it, and
\* whether a subtraction of observe_cluster_metrics went below zero (a panic
\* of a build with overflow checks)
get_exit_metrics(routes, exits, current_exit_ip, tracking_exit, initial_best_exit, initial_best_metric, exit_map) ==
    LET start == [best_exit |-> None,
                  best_metric |-> U16_MAX,
                  current_exit_down |-> TRUE,
                  current_exit_metric |-> U16_MAX,
                  tracking_metric |-> U16_MAX,
                  exit_map |-> exit_map,
                  underflow |-> FALSE]
        acc == RouteLoop(routes, 1, start, exits, current_exit_ip, tracking_exit,
                         initial_best_metric)
        use_current == ~acc.current_exit_down /\ initial_best_metric < acc.best_metric
    IN  [em |-> ExitMetrics(acc.current_exit_down,
                            current_exit_ip,
                            acc.current_exit_metric,
                            tracking_exit,
                            acc.tracking_metric,
                            IF use_current THEN initial_best_exit ELSE acc.best_exit,
                            IF use_current THEN initial_best_metric ELSE acc.best_metric),
         exit_map |-> set_last_added_to_zero(acc.exit_map),
         underflow |-> acc.underflow]

(***************************************************************************)
(* update_metric_value and the 10% rule.                                   *)
(***************************************************************************)
\* the test passed by an improvement of exactly one tenth as well
worth_switching_tracking_exit_AtLeastTenth(metric_vec, best_ip, exit_map) ==
    IF metric_vec = <<>>
    THEN [panic |-> FALSE, value |-> FALSE]
    ELSE IF best_ip \notin DOMAIN exit_map
    THEN [panic |-> TRUE, value |-> FALSE]
    ELSE LET avg_tracking_metric == calculate_average(metric_vec)
             exit == exit_map[best_ip]
         IN  IF exit.ticker_len = 0
             THEN [panic |-> FALSE, value |-> FALSE]
             ELSE LET avg_best_metric == AsU16(exit.running_total \div exit.ticker_len)
                  IN  IF avg_tracking_metric < avg_best_metric \/ avg_best_metric = 0
                      THEN [panic |-> FALSE, value |-> FALSE]
                      ELSE [panic |-> FALSE,
                            value |-> 10 * (avg_tracking_metric - avg_best_metric)
                                          >= avg_tracking_metric]

\* the test passed only by an improvement of more than one fifth
worth_switching_tracking_exit_Fifth(metric_vec, best_ip, exit_map) ==
    IF metric_vec = <<>>
    THEN [panic |-> FALSE, value |-> FALSE]
    ELSE IF best_ip \notin DOMAIN exit_map
    THEN [panic |-> TRUE, value |-> FALSE]
    ELSE LET avg_tracking_metric == calculate_average(metric_vec)
             exit == exit_map[best_ip]
         IN  IF exit.ticker_len = 0
             THEN [panic |-> FALSE, value |-> FALSE]
             ELSE LET avg_best_metric == AsU16(exit.running_total \div exit.ticker_len)
                  IN  IF avg_tracking_metric < avg_best_metric \/ avg_best_metric = 0
                      THEN [panic |-> FALSE, value |-> FALSE]
                      ELSE [panic |-> FALSE,
                            value |-> 5 * (avg_tracking_metric - avg_best_metric)
                                          > avg_tracking_metric]

\* the test without the early return on an empty window: calculate_average
\* panics on the empty vector
worth_switching_tracking_exit_NoEmptyCheck(metric_vec, best_ip, exit_map) ==
    IF metric_vec = <<>> \/ best_ip \notin DOMAIN exit_map
    THEN [panic |-> TRUE, value |-> FALSE]
    ELSE LET avg_tracking_metric == calculate_average(metric_vec)
             exit == exit_map[best_ip]
         IN  IF exit.ticker_len = 0
             THEN [panic |-> FALSE, value |-> FALSE]
             ELSE LET avg_best_metric == AsU16(exit.running_total \div exit.ticker_len)
                  IN  IF avg_tracking_metric < avg_best_metric \/ avg_best_metric = 0
                      THEN [panic |-> FALSE, value |-> FALSE]
                      ELSE [panic |-> FALSE,
                            value |-> 10 * (avg_tracking_metric - avg_best_metric)
                                          > avg_tracking_metric]

\* [panic, value].  The f64 test (t - b) / t > 0.1 on u16 operands decides
\* exactly as 10 * (t - b) > t: a quotient that differs from 1/10 differs by
\* at least 1 / (10 * 65535), far more than the rounding of the division, and
\* a quotient of exactly 1/10 rounds to the literal 0.1 itself.
worth_switching_tracking_exit(metric_vec, best_ip, exit_map) ==
    IF metric_vec = <<>>
    THEN [panic |-> FALSE, value |-> FALSE]
    ELSE IF best_ip \notin DOMAIN exit_map
    THEN [panic |-> TRUE, value |-> FALSE]
    ELSE LET avg_tracking_metric == calculate_average(metric_vec)
             exit == exit_map[best_ip]
         IN  IF exit.ticker_len = 0
             THEN [panic |-> FALSE, value |-> FALSE]
             ELSE LET avg_best_metric == AsU16(exit.running_total \div exit.ticker_len)
                  IN  IF avg_tracking_metric < avg_best_metric \/ avg_best_metric = 0
                      THEN [panic |-> FALSE, value |-> FALSE]
                      ELSE [panic |-> FALSE,
                            value |-> 10 * (avg_tracking_metric - avg_best_metric)
                                          > avg_tracking_metric]

\* a window taken for full one entry early
IsFull_OneEarly(metric_vec) == Len(metric_vec) + 1 >= METRIC_ENTRIES

\* a window taken for full only once it holds more than its capacity
IsFull_OneLate(metric_vec) == Len(metric_vec) = METRIC_ENTRIES + 1

\* metric_vec.len() == metric_vec.capacity(); the capacity is the one the
\* vector was made with: a push happens only below it or after a clear
IsFull(metric_vec) == Len(metric_vec) = METRIC_ENTRIES

\* the capacity of a Vec of capacity cap after a push onto len elements: a
\* push onto a full vector reallocates to twice the capacity (at least 4)
PushCapacity(len, cap) ==
    IF len < cap THEN cap
    ELSE IF 2 * cap > 4 THEN 2 * cap ELSE 4

\* [code, metric_vec, capacity, exit_map]; code "Panic" when a panic! or
\* expect fires, the vector and the map are then as the panic leaves them.
\* The vector comes with the capacity it was made with; clear() keeps it
RECURSIVE update_metric_value(_, _, _)
update_metric_value(exit_metrics, metric_vec, exit_map) ==
    LET is_full == IsFull(metric_vec)
        current_exit == exit_metrics.cur_exit
        current_metric == exit_metrics.cur_exit_babel_met
        best_exit == exit_metrics.best_exit
        best_metric == exit_metrics.best_exit_met
        tracking_metric == exit_metrics.tracking_met
        Out(code, vec, map) == [code |-> code, metric_vec |-> vec,
                                capacity |-> METRIC_ENTRIES, exit_map |-> map]
        Cleared(code) == [code |-> code, metric_vec |-> <<best_metric>>,
                          capacity |-> PushCapacity(0, METRIC_ENTRIES),
                          exit_map |-> reset_exit_tracking(exit_map)]
        Pushed(code) == [code |-> code, metric_vec |-> Append(metric_vec, best_metric),
                         capacity |-> PushCapacity(Len(metric_vec), METRIC_ENTRIES),
                         exit_map |-> exit_map]
    IN  IF IsNone(current_exit)
        THEN IF metric_vec # <<>>
             THEN Out("Panic", metric_vec, exit_map)
             ELSE Out("InitialExitSetup", metric_vec, exit_map)
        ELSE IF IsNone(best_exit)
        THEN Out("Panic", metric_vec, exit_map)
        ELSE
        LET tracking_exit == IF IsSome(exit_metrics.tracking_exit)
                             THEN Unwrap(exit_metrics.tracking_exit)
                             ELSE Unwrap(best_exit)
        IN  IF Unwrap(best_exit) = tracking_exit
            THEN IF Unwrap(current_exit) = tracking_exit
                 THEN IF is_full
                      THEN Cleared("ContinueCurrentReset")
                      ELSE Pushed("ContinueCurrent")
                 ELSE IF is_full
                      THEN Cleared("SwitchExit")
                      ELSE Pushed("ContinueTracking")
            ELSE LET worth == worth_switching_tracking_exit(metric_vec,
                                                            Unwrap(best_exit), exit_map)
                 IN  IF worth.panic
                     THEN Out("Panic", metric_vec, exit_map)
                     ELSE IF worth.value
                     THEN Cleared("ResetTracking")
                     ELSE update_metric_value(
                              ExitMetrics(exit_metrics.is_exit_down,
                                          current_exit,
                                          current_metric,
                                          Some(tracking_exit),
                                          tracking_metric,
                                          Some(tracking_exit),
                                          tracking_metric),
                              metric_vec, exit_map)

(***************************************************************************)
(* set_exit_state and set_best_exit.                                       *)
(***************************************************************************)
SelectedExit(selected_id, selected_id_metric, selected_id_degradation, tracking_exit) ==
    [selected_id |-> selected_id,
     selected_id_metric |-> selected_id_metric,
     selected_id_degradation |-> selected_id_degradation,
     tracking_exit |-> tracking_exit]

\* a change of the tracked exit that commits the switch as well
ResetTrackingState_SwitchesToo(sel, exit_metrics) ==
    SelectedExit(exit_metrics.best_exit, Some(exit_metrics.best_exit_met), None,
                 exit_metrics.best_exit)

\* the selected exit after ResetTracking: only what is tracked changes
ResetTrackingState(sel, exit_metrics) ==
    [sel EXCEPT !.tracking_exit = exit_metrics.best_exit]

\* [ret, ip, selected_exit]: ret is "Ok" with the returned address, or "Panic"
set_exit_state(sel, exit_code, exit_metrics, metric_vec) ==
    LET Ok(ip, new_sel) == [ret |-> "Ok", ip |-> ip, selected_exit |-> new_sel]
        Panic == [ret |-> "Panic", ip |-> None, selected_exit |-> sel]
    IN  CASE exit_code = "InitialExitSetup" -> Panic
          [] exit_code = "ContinueCurrentReset" ->
                IF IsNone(sel.selected_id_metric) \/ IsNone(exit_metrics.cur_exit)
                THEN Panic
                ELSE Ok(exit_metrics.cur_exit,
                        [sel EXCEPT !.selected_id_degradation =
                            checked_sub(exit_metrics.cur_exit_babel_met,
                                        Unwrap(sel.selected_id_metric))])
          [] exit_code = "ContinueCurrent" ->
                IF IsNone(sel.selected_id_degradation)
                THEN IF metric_vec = <<>> \/ IsNone(sel.selected_id_metric)
                        \/ IsNone(exit_metrics.cur_exit)
                     THEN Panic
                     ELSE Ok(exit_metrics.cur_exit,
                             [sel EXCEPT !.selected_id_degradation =
                                 checked_sub(calculate_average(metric_vec),
                                             Unwrap(sel.selected_id_metric))])
                ELSE LET res == checked_sub(exit_metrics.cur_exit_babel_met,
                                            Unwrap(sel.selected_id_degradation))
                     IN  IF IsNone(exit_metrics.cur_exit)
                         THEN Panic
                         ELSE IF IsNone(res)
                         THEN Ok(exit_metrics.cur_exit, sel)
                         ELSE Ok(exit_metrics.cur_exit,
                                 [sel EXCEPT !.selected_id_metric = res])
          [] exit_code = "SwitchExit" ->
                IF IsNone(exit_metrics.best_exit)
                THEN Panic
                ELSE Ok(exit_metrics.best_exit,
                        SelectedExit(exit_metrics.best_exit,
                                     Some(exit_metrics.best_exit_met),
                                     None,
                                     exit_metrics.best_exit))
          [] exit_code = "ContinueTracking" ->
                IF IsNone(exit_metrics.cur_exit)
                THEN Panic
                ELSE Ok(exit_metrics.cur_exit, sel)
          [] exit_code = "ResetTracking" ->
                IF IsNone(exit_metrics.cur_exit)
                THEN Panic
                ELSE Ok(exit_metrics.cur_exit, ResetTrackingState(sel, exit_metrics))

\* [ret, ip, code, em, observed, updated, selected_exit, metric_values,
\* exit_tracker]: what the call returns ("Ok", "Err" or "Panic"), the code and
\* metrics of the tick, the tracker map as get_exit_metrics left it, what
\* update_metric_value returned (None when it was not called or panicked),
\* and the ExitServer and the two statics as the call leaves them
set_best_exit(exits, routes, sel, metric_vec, exit_map) ==
    LET NoEm == ExitMetrics(TRUE, None, U16_MAX, None, U16_MAX, None, U16_MAX)
        Seen(ret, ip, code, em, observed, new_sel, vec, map) ==
            [ret |-> ret, ip |-> ip, code |-> code, em |-> em, observed |-> observed,
             updated |-> None,
             selected_exit |-> new_sel, metric_values |-> vec, exit_tracker |-> map]
    IN  IF routes = <<>>
        THEN Seen("Err", None, "None", NoEm, exit_map, sel, metric_vec, exit_map)
        ELSE
        LET current_adjusted_metric == UnwrapOr(sel.selected_id_metric, U16_MAX)
            tracking_exit == sel.tracking_exit
            current_exit_ip == sel.selected_id
            got == get_exit_metrics(routes, exits, current_exit_ip, tracking_exit,
                                    current_exit_ip, current_adjusted_metric, exit_map)
            exit_metrics == got.em
            Out(ret, ip, code, em, new_sel, vec, map) ==
                Seen(ret, ip, code, em, got.exit_map, new_sel, vec, map)
        IN  IF got.underflow
            THEN Out("Panic", None, "Panic", exit_metrics, sel, metric_vec, exit_map)
            ELSE IF IsNone(exit_metrics.best_exit)
            THEN Out("Err", None, "None", exit_metrics, sel, metric_vec, got.exit_map)
            ELSE
            LET upd == update_metric_value(exit_metrics, metric_vec, got.exit_map)
                Upd(ret, ip, new_sel, vec, map) ==
                    [Out(ret, ip, upd.code, exit_metrics, new_sel, vec, map)
                        EXCEPT !.updated = Some(upd)]
            IN  IF upd.code = "Panic"
                THEN Out("Panic", None, "Panic", exit_metrics, sel,
                         upd.metric_vec, upd.exit_map)
                ELSE IF exit_metrics.is_exit_down
                THEN Upd("Ok", exit_metrics.best_exit,
                         SelectedExit(exit_metrics.best_exit,
                                      Some(exit_metrics.best_exit_met),
                                      None,
                                      exit_metrics.best_exit),
                         <<>>,
                         reset_exit_tracking(upd.exit_map))
                ELSE LET st == set_exit_state(sel, upd.code, exit_metrics,
                                              upd.metric_vec)
                     IN  Upd(st.ret, st.ip, st.selected_exit, upd.metric_vec,
                             upd.exit_map)

(***************************************************************************)
(* The exit manager tick: one call of set_best_exit with the routes babel  *)
(* reports.  exit_ev and acct are history variables: they record the call  *)
(* and what the snapshot held, computed from the snapshot alone.           *)
(***************************************************************************)
\* the metrics the snapshot advertises for ip
RouteMetricsOf(routes, ip) ==
    {routes[i].metric : i \in {j \in DOMAIN routes : routes[j].prefix_ip = ip}}

SetMin(S) == CHOOSE m \in S : \A n \in S : m <= n

\* the minimum metric of the routes to ip in the snapshot, None without a route
SnapshotMin(routes, ip) ==
    IF RouteMetricsOf(routes, ip) = {} THEN None
    ELSE Some(SetMin(RouteMetricsOf(routes, ip)))

\* the minimum metric over all routes into the exit subnet, None without one
CandidateMin(routes) ==
    LET all == UNION {RouteMetricsOf(routes, ip) : ip \in CandidateIPs}
    IN  IF all = {} THEN None ELSE Some(SetMin(all))

\* the selected exit is down: none selected, no route to it in the snapshot,
\* or every route to it has the infinite metric
\* the snapshot holds a route to ip whose metric is not infinite
HasLiveRoute(routes, ip) == \E m \in RouteMetricsOf(routes, ip) : m < U16_MAX

SelectedIsDown(selected_id, routes) ==
    \/ IsNone(selected_id)
    \/ \A m \in RouteMetricsOf(routes, Unwrap(selected_id)) : m = U16_MAX

ResetCodes == {"ContinueCurrentReset", "SwitchExit", "ResetTracking"}

\* how the tick's best exit compares with the tracked one: "better" when the
\* selected exit is up, the best exit is not the tracked one and its running
\* average is more than 10% better than the window's, "not_better" when it
\* is not the tracked one and not that much better, "na" otherwise
TenPercent(sel, metric_vec, out) ==
    IF out.ret # "Ok" \/ out.em.is_exit_down \/ out.em.best_exit = sel.tracking_exit
    THEN "na"
    ELSE IF worth_switching_tracking_exit(metric_vec, Unwrap(out.em.best_exit),
                                          out.observed).value
    THEN "better"
    ELSE "not_better"

\* the exits other than cur that have a route in the snapshot
OtherExits(routes, cur) ==
    {ip \in CandidateIPs : Some(ip) # cur /\ RouteMetricsOf(routes, ip) # {}}

\* the lowest metric among the exits other than cur and the exits that show
\* it; metric None without such an exit
OtherLowest(routes, cur) ==
    LET others == OtherExits(routes, cur)
        low == SetMin(UNION {RouteMetricsOf(routes, ip) : ip \in others})
    IN  IF others = {} THEN [metric |-> None, ips |-> {}]
        ELSE [metric |-> Some(low),
              ips |-> {ip \in others : low \in RouteMetricsOf(routes, ip)}]

\* the ticks an exit has been selected for, up to the tick that changes
\* selected_id (closed): whether on each of them the exit was up and the
\* lowest metric was another exit's, below the exit's babel metric and below
\* its adjusted metric (lower_all); the exits that showed that lowest metric,
\* its lowest and highest value, and the lowest babel metric of the exit
NoRun == [closed |-> TRUE, lower_all |-> FALSE, ips |-> {}, other_low |-> U16_MAX, other_high |-> 0, cur_low |-> U16_MAX]

RunAfter(prev, sel, routes, out) ==
    LET base == IF prev.closed THEN [NoRun EXCEPT !.closed = FALSE, !.lower_all = TRUE]
                ELSE prev
        other == OtherLowest(routes, sel.selected_id)
        up == ~SelectedIsDown(sel.selected_id, routes)
        cur == IF up THEN Unwrap(SnapshotMin(routes, Unwrap(sel.selected_id)))
               ELSE U16_MAX
        o == UnwrapOr(other.metric, U16_MAX)
        lower == /\ out.ret = "Ok"
                 /\ up
                 /\ IsSome(other.metric)
                 /\ o < cur
                 /\ o < UnwrapOr(sel.selected_id_metric, U16_MAX)
    IN  [closed |-> out.selected_exit.selected_id # sel.selected_id,
         lower_all |-> base.lower_all /\ lower,
         ips |-> base.ips \cup other.ips,
         other_low |-> IF IsSome(other.metric) /\ o < base.other_low
                       THEN o ELSE base.other_low,
         other_high |-> IF IsSome(other.metric) /\ o > base.other_high
                        THEN o ELSE base.other_high,
         cur_low |-> IF cur < base.cur_low THEN cur ELSE base.cur_low]

\* a history counter that stops at bound
UpTo(bound, n) == IF n > bound THEN bound ELSE n

\* the successful ticks since the one that last changed selected_id
HeldAfter(held, sel, out) ==
    IF out.ret # "Ok" THEN held
    ELSE IF out.selected_exit.selected_id # sel.selected_id THEN 0
    ELSE held + 1

\* the switches so far: changes of selected_id away from an exit that was
\* still up (a change away from a down or unset exit is a failover)
SwitchesAfter(switches, sel, routes, out) ==
    IF out.ret # "Ok" \/ out.selected_exit.selected_id = sel.selected_id THEN switches
    ELSE IF SelectedIsDown(sel.selected_id, routes) THEN switches
    ELSE switches + 1

\* the sums the trackers are meant to hold after the tick: every candidate
\* seen in the snapshot adds its minimum metric and one tick; a tick that
\* resets the trackers starts the sums again
AcctAfter(old, routes, out) ==
    IF routes = <<>> \/ out.ret = "Panic"
    THEN old
    ELSE IF out.ret = "Ok" /\ (out.em.is_exit_down \/ out.code \in ResetCodes)
    THEN [ip \in CandidateIPs |-> [total |-> 0, len |-> 0]]
    ELSE [ip \in CandidateIPs |->
            LET m == SnapshotMin(routes, ip)
            IN  IF IsSome(m)
                THEN [total |-> old[ip].total + Unwrap(m), len |-> old[ip].len + 1]
                ELSE old[ip]]

ExitInit ==
    /\ selected_exit = SelectedExit(None, None, None, None)
    /\ metric_values = <<>>
    /\ exit_tracker = <<>>
    /\ panicked = FALSE
    /\ exit_ticks = 0
    /\ exit_ev = [ret |-> "Init", held |-> 0, switches |-> 0, run |-> NoRun, restart |-> None]
    /\ acct = [ip \in CandidateIPs |-> [total |-> 0, len |-> 0]]

\* the count of calls after one more
\* history: the codes after which the window starts again
RestartCodes == {"ContinueCurrentReset", "SwitchExit", "ResetTracking"}

\* history: the metric update_metric_value was given for the exit it goes on
\* tracking on this tick: the best exit's when the best exit is the tracked
\* one or replaces it, the tracked exit's when the best exit is discarded
RecordedMetric(sel, out) ==
    LET tracked == IF IsSome(sel.tracking_exit) THEN sel.tracking_exit
                   ELSE out.em.best_exit
    IN  IF out.em.best_exit = tracked \/ out.code = "ResetTracking"
        THEN out.em.best_exit_met
        ELSE out.em.tracking_met

\* history: what update_metric_value returned on a tick whose code restarts
\* the window: the window, its capacity, the trackers that are not all zero,
\* and the metric of the tick; None on every other tick
RestartOf(sel, out) ==
    IF IsSome(out.updated) /\ out.code \in RestartCodes
    THEN LET upd == Unwrap(out.updated)
         IN  Some([metric_vec |-> upd.metric_vec,
                   capacity |-> upd.capacity,
                   nonzero |-> {ip \in DOMAIN upd.exit_map :
                                   upd.exit_map[ip] # ExitTracker(0, 0, 0)},
                   recorded |-> RecordedMetric(sel, out)])
    ELSE None

TicksAfter(ticks, max_ticks) == IF ticks < max_ticks THEN ticks + 1 ELSE max_ticks - 1

\* one call of set_best_exit.  A bounded run ends after max_ticks calls.  An
\* endless run goes on: beyond max_ticks its calls are counted between
\* max_ticks - 1 and max_ticks, its history counters stop at max_ticks, and
\* it keeps the history exit_ev.run
ExitTick(routes, max_ticks, endless) ==
    /\ ~panicked
    /\ endless \/ exit_ticks < max_ticks
    /\ exit_ticks' = TicksAfter(exit_ticks, max_ticks)
    /\ \E out \in {set_best_exit(ExitSubnet, routes, selected_exit, metric_values,
                                  exit_tracker)} :
           /\ selected_exit' = out.selected_exit
           /\ metric_values' = out.metric_values
           /\ exit_tracker' = out.exit_tracker
           /\ panicked' = (out.ret = "Panic")
           /\ exit_ev' = [ret |-> out.ret,
                          code |-> out.code,
                          is_exit_down |-> out.em.is_exit_down,
                          claim_down |-> SelectedIsDown(selected_exit.selected_id, routes),
                          was_full |-> Len(metric_values) = METRIC_ENTRIES,
                          changed |-> out.selected_exit.selected_id
                                        # selected_exit.selected_id,
                          ten_percent |-> TenPercent(selected_exit, metric_values, out),
                          best_exit |-> IF TenPercent(selected_exit, metric_values, out)
                                            = "na"
                                        THEN None ELSE out.em.best_exit,
                          best_min |-> CandidateMin(routes),
                          sel_min |-> IF IsSome(out.selected_exit.selected_id)
                                      THEN SnapshotMin(routes,
                                               Unwrap(out.selected_exit.selected_id))
                                      ELSE None,
                          ip |-> out.ip,
                          live |-> IsSome(out.ip) /\ HasLiveRoute(routes, Unwrap(out.ip)),
                          restart |-> RestartOf(selected_exit, out),
                          run |-> IF endless
                                  THEN RunAfter(exit_ev.run, selected_exit, routes, out)
                                  ELSE NoRun,
                          held |-> UpTo(max_ticks,
                                        HeldAfter(exit_ev.held, selected_exit, out)),
                          switches |-> UpTo(max_ticks,
                                            SwitchesAfter(exit_ev.switches, selected_exit,
                                                          routes, out))]
           /\ acct' = AcctAfter(acct, routes, out)
    /\ UNCHANGED <<shared_vars, oracle_vars, fee_vars, common_vars>>

ExitManagerTick(routes) == ExitTick(routes, METRIC_ENTRIES + MaxExtraTicks, FALSE)

(***************************************************************************)
(* Two ExitServer records handed to set_best_exit in turn.  METRIC_VALUES  *)
(* and EXIT_TRACKER are statics of the module: both records work on the    *)
(* same window and the same tracker map.                                   *)
(***************************************************************************)
\* runs of two ExitServers are followed for this many calls
MaxSharedTicks == 3

ExitServers == {1, 2}

ServerExit(k) == IF k = 1 THEN selected_exit ELSE other_exit

\* one call of set_best_exit with the k-th ExitServer
SharedExitTick(k, routes) ==
    /\ ~panicked
    /\ exit_ticks < MaxSharedTicks
    /\ exit_ticks' = exit_ticks + 1
    /\ \E out \in {set_best_exit(ExitSubnet, routes, ServerExit(k), metric_values,
                                  exit_tracker)} :
           /\ selected_exit' = IF k = 1 THEN out.selected_exit ELSE selected_exit
           /\ other_exit' = IF k = 2 THEN out.selected_exit ELSE other_exit
           /\ metric_values' = out.metric_values
           /\ exit_tracker' = out.exit_tracker
           /\ panicked' = (out.ret = "Panic")
           /\ exit_ev' = [ret |-> out.ret,
                          code |-> out.code,
                          server |-> k,
                          unset |-> IsNone(ServerExit(k).selected_id),
                          window |-> metric_values]
    /\ UNCHANGED <<acct, shared_vars, oracle_vars, fee_vars, identity_vars, loop_vars,
                   debt_vars, babel_vars>>

(***************************************************************************)
(* worth_switching_tracking_exit on its own: a window and the tracker of   *)
(* the tick's best exit, as a tick can leave them, and one call.           *)
(***************************************************************************)
\* metrics a window may hold
WorthMetrics == {0, 100, 110}
\* sums and tick counts of the best exit's tracker: averages of 0, below,
\* at and above nine tenths of 100, with and without a remainder
WorthTotals == {0, 89, 90, 110, 179, 189}
WorthLens == {1, 2}

WorthInit ==
    /\ selected_exit = SelectedExit(None, None, None, None)
    /\ metric_values \in UNION {[1..n -> WorthMetrics] : n \in 0..METRIC_ENTRIES}
    /\ \E t \in WorthTotals, l \in WorthLens \cup {0} :
           /\ l = 0 => t = 0
           /\ exit_tracker = MapInsert(<<>>, ExitA, ExitTracker(0, t, l))
    /\ panicked = FALSE
    /\ exit_ticks = 0
    /\ exit_ev = [ret |-> "Init"]
    /\ acct = [ip \in CandidateIPs |-> [total |-> 0, len |-> 0]]

\* one call of worth_switching_tracking_exit; it reads the window and the map
WorthSwitching(best_ip) ==
    /\ exit_ev.ret = "Init"
    /\ best_ip \in DOMAIN exit_tracker
    /\ \E out \in {worth_switching_tracking_exit(metric_values, best_ip, exit_tracker)} :
           /\ panicked' = out.panic
           /\ exit_ev' = [ret |-> "Worth", best_ip |-> best_ip, value |-> out.value]
    /\ UNCHANGED <<selected_exit, metric_values, exit_tracker, exit_ticks, acct,
                   shared_vars, oracle_vars, fee_vars, common_vars>>

(***************************************************************************)
(* get_exit_metrics on its own: the arguments set_best_exit and the unit   *)
(* test hand it, and one call.                                             *)
(***************************************************************************)
\* the advertised metric of the selected exit
AdjustedMetrics == {80, 100}

MetricsInit ==
    /\ selected_exit \in
           {SelectedExit(None, None, None, None)}
           \cup {SelectedExit(Some(ExitA), Some(m), None, t) :
                    m \in AdjustedMetrics,
                    t \in {None} \cup {Some(ip) : ip \in CandidateIPs}}
    /\ metric_values = <<>>
    /\ exit_tracker \in {<<>>,
                         MapInsert(MapInsert(<<>>, ExitA, ExitTracker(0, 100, 1)),
                                   ExitB, ExitTracker(0, 80, 1))}
    /\ panicked = FALSE
    /\ exit_ticks = 0
    /\ exit_ev = [ret |-> "Init"]
    /\ acct = [ip \in CandidateIPs |-> [total |-> 0, len |-> 0]]

\* one call of get_exit_metrics as set_best_exit makes it; it writes the map
GetExitMetrics(routes) ==
    /\ exit_ev.ret = "Init"
    /\ \E got \in {get_exit_metrics(routes, ExitSubnet, selected_exit.selected_id,
                                     selected_exit.tracking_exit,
                                     selected_exit.selected_id,
                                     UnwrapOr(selected_exit.selected_id_metric, U16_MAX),
                                     exit_tracker)} :
           /\ exit_tracker' = got.exit_map
           /\ exit_ev' = [ret |-> "Metrics", routes |-> routes, em |-> got.em,
                          map_before |-> exit_tracker]
    /\ UNCHANGED <<selected_exit, metric_values, panicked, exit_ticks, acct,
                   shared_vars, oracle_vars, fee_vars, common_vars>>

(***************************************************************************)
(* The payment settings and the replies of the full node.                  *)
(***************************************************************************)
\* how many futures of one kind may be unresolved at once
MaxInFlight == 2
\* runs of the oracle are followed for this many steps
MaxOracleSteps == 5

\* ZERO_WINDOW_TIME, in seconds
ZERO_WINDOW_TIME == 300
\* FAST_LOOP_TIMEOUT, in seconds: at most the period of the loop, and the
\* longest wait that allows
FAST_LOOP_TIMEOUT == 5
\* How long we wait for a response from the full node
ORACLE_TIMEOUT == FAST_LOOP_TIMEOUT
\* transaction_gas
TRANSACTION_GAS == 21000

\* the clock moves by a wait shorter than the timeout or by a wait that
\* carries a zero window opened just before past its end
TimeSteps == {5, 300}

MinGas == 15
MaxGas == 50
DynamicFeeMultiplier == 20

\* the fields of PaymentSettings the modelled code reads or writes
PaymentSettings(balance, nonce, net_version) ==
    [balance |-> balance,
     nonce |-> nonce,
     gas_price |-> 0,
     net_version |-> net_version,
     pay_threshold |-> 0,
     close_threshold |-> 0,
     min_gas |-> MinGas,
     max_gas |-> MaxGas,
     dynamic_fee_multiplier |-> DynamicFeeMultiplier,
     eth_private_key |-> Some("key")]

InitBalances == {0, 5}
InitNonces == {2}
\* the configured min_gas: none, or the default floor
InitMinGas == {0, MinGas}

\* Result<T, Error> of one web3 call
Ok(v) == <<"Ok", v>>
Err == <<"Err">>
IsOk(r) == r[1] = "Ok"
OkValue(r) == r[2]
WebResults(values) == {Ok(v) : v \in values} \cup {Err}

BalanceReplies == {0, 5}
NonceReplies == {1, 3}
\* gas prices: zero, one inside the limits whose twentieth has a remainder,
\* one above max_gas
GasPriceReplies == {0, 39, 100}
\* net_version replies are strings, here sequences of characters: the chain
\* id 1, the chain id 1 spelt with a sign, another chain id, and no number
NetVersionReplies == {<<"1">>, <<"+", "1">>, <<"3">>, <<"x">>}

\* the four replies one join4 waits for
JoinResults ==
    [balance : WebResults(BalanceReplies),
     nonce : WebResults(NonceReplies),
     net_version : WebResults(NetVersionReplies),
     gas_price : WebResults(GasPriceReplies)]

Digits == <<"0", "1", "2", "3", "4", "5", "6", "7", "8", "9">>
IsDigit(c) == \E d \in 1..10 : Digits[d] = c
DigitValue(c) == (CHOOSE d \in 1..10 : Digits[d] = c) - 1

RECURSIVE ParseDigits(_, _, _)
\* the digits of str from position i on, folded into acc; Err at a character
\* that is no digit (the strings of the model are too short to overflow u64)
ParseDigits(str, i, acc) ==
    IF i > Len(str) THEN Ok(acc)
    ELSE IF ~IsDigit(str[i]) THEN Err
    ELSE ParseDigits(str, i + 1, acc * 10 + DigitValue(str[i]))

\* str.parse::<u64>(): an optional '+', then at least one digit, nothing else
ParseU64(str) ==
    IF Len(str) = 0 THEN Err
    ELSE IF str[1] = "+"
         THEN (IF Len(str) = 1 THEN Err ELSE ParseDigits(str, 2, 0))
         ELSE ParseDigits(str, 1, 0)

(***************************************************************************)
(* blockchain_oracle/mod.rs                                                *)
(***************************************************************************)
\* the new value of *our_balance; time is the instant the caller handed in
update_balance(zero_window_arg, our_balance, new_balance, clock) ==
    LET zeroed == our_balance # 0 /\ new_balance = 0
    IN  IF ~zeroed THEN new_balance
        ELSE IF IsSome(zero_window_arg)
             THEN (IF clock - Unwrap(zero_window_arg) <= ZERO_WINDOW_TIME
                   THEN new_balance ELSE our_balance)
             ELSE our_balance

\* a latch that a later reply overwrites
get_net_version_Overwrite(net_version, new_net_version) ==
    LET parsed == ParseU64(new_net_version)
    IN  IF IsOk(parsed) THEN Some(OkValue(parsed)) ELSE net_version

\* the new value of *net_version
get_net_version(net_version, new_net_version) ==
    LET parsed == ParseU64(new_net_version)
    IN  IF IsOk(parsed)
        THEN (IF IsSome(net_version) /\ Unwrap(net_version) # OkValue(parsed)
              THEN net_version
              ELSE IF IsNone(net_version) THEN Some(OkValue(parsed))
              ELSE net_version)
        ELSE net_version

\* the new value of *nonce
update_nonce(transaction_count, nonce) == transaction_count

\* the price of the full node taken as it is, without the 5% on top
update_gas_price_NoMarkup(new_gas_price, ps) ==
    LET value == new_gas_price
        gas_price == IF value < ps.min_gas THEN ps.min_gas
                     ELSE IF value > ps.max_gas THEN ps.max_gas
                     ELSE value
        pay_threshold == TRANSACTION_GAS * gas_price * ps.dynamic_fee_multiplier
    IN  [ps EXCEPT !.gas_price = gas_price,
                   !.pay_threshold = pay_threshold,
                   !.close_threshold = (-1) * 4 * pay_threshold]

\* the minimum gas price rule left out
update_gas_price_NoMinimum(new_gas_price, ps) ==
    LET value == new_gas_price + (new_gas_price \div 20)
        gas_price == IF value > ps.max_gas THEN ps.max_gas ELSE value
        pay_threshold == TRANSACTION_GAS * gas_price * ps.dynamic_fee_multiplier
    IN  [ps EXCEPT !.gas_price = gas_price,
                   !.pay_threshold = pay_threshold,
                   !.close_threshold = (-1) * 4 * pay_threshold]

\* the payment settings after update_gas_price; gas_price is at most max_gas
\* or min_gas, both u64, so to_int256 always yields a value
update_gas_price(new_gas_price, ps) ==
    LET value == new_gas_price + (new_gas_price \div 20)
        gas_price == IF value < ps.min_gas THEN ps.min_gas
                     ELSE IF value > ps.max_gas THEN ps.max_gas
                     ELSE value
        pay_threshold == TRANSACTION_GAS * gas_price * ps.dynamic_fee_multiplier
    IN  [ps EXCEPT !.gas_price = gas_price,
                   !.pay_threshold = pay_threshold,
                   !.close_threshold = (-1) * 4 * pay_threshold]

\* the and_then closure of update_blockchain_info: all four replies are there
update_blockchain_info_and_then(ps, zero_window_arg, clock, results) ==
    LET ps1 == [ps EXCEPT !.balance = update_balance(zero_window_arg, ps.balance,
                                                     OkValue(results.balance), clock)]
        ps2 == update_gas_price(OkValue(results.gas_price), ps1)
        ps3 == [ps2 EXCEPT !.nonce = update_nonce(OkValue(results.nonce), ps2.nonce)]
    IN  [ps3 EXCEPT !.net_version = get_net_version(ps3.net_version,
                                                    OkValue(results.net_version))]

Failed(results) == {q \in DOMAIN results : ~IsOk(results[q])}

\* a join that hands the balance on although another query failed
update_blockchain_info_join4_BalanceAlone(ps, zero_window_arg, clock, results) ==
    IF Failed(results) = {}
    THEN update_blockchain_info_and_then(ps, zero_window_arg, clock, results)
    ELSE IF IsOk(results.balance)
         THEN [ps EXCEPT !.balance = update_balance(zero_window_arg, ps.balance,
                                                    OkValue(results.balance), clock)]
         ELSE ps

\* balance.join4(nonce, net_version, gas_price).and_then(..).then(..): the
\* closure runs only if all four futures resolved to Ok
update_blockchain_info_join4(ps, zero_window_arg, clock, results) ==
    IF Failed(results) = {}
    THEN update_blockchain_info_and_then(ps, zero_window_arg, clock, results)
    ELSE ps

OracleInit ==
    /\ zero_window = None
    /\ oracle_reqs = <<>>
    /\ rl_reqs = [q \in {"balance", "net_version", "nonce", "gas_price"} |-> 0]
    /\ oracle_steps = 0
    /\ oracle_ev = [op |-> "Init"]

OracleStep ==
    /\ oracle_steps < MaxOracleSteps
    /\ oracle_steps' = oracle_steps + 1

\* Handler<ZeroWindowStart>
ZeroWindowStart ==
    /\ OracleStep
    /\ zero_window' = Some(now)
    /\ oracle_ev' = [op |-> "ZeroWindowStart"]
    /\ UNCHANGED <<oracle_reqs, rl_reqs, shared_vars, exit_vars, fee_vars, common_vars>>

\* Handler<Update>: the four queries go out and their join is spawned, with
\* Some(Instant::now()) as its zero_window
OracleUpdate ==
    /\ OracleStep
    /\ Len(oracle_reqs) < MaxInFlight
    /\ oracle_reqs' = Append(oracle_reqs, [sent |-> now, zero_window |-> Some(now)])
    /\ oracle_ev' = [op |-> "Update"]
    /\ UNCHANGED <<zero_window, rl_reqs, shared_vars, exit_vars, fee_vars, common_vars>>

RemoveAt(seq, i) == [j \in 1..(Len(seq) - 1) |-> IF j < i THEN seq[j] ELSE seq[j + 1]]

\* the join of the i-th outstanding Update resolves; web3 fails every query
\* that has no reply ORACLE_TIMEOUT after it was sent
OracleReply(i, results) ==
    /\ OracleStep
    /\ i <= Len(oracle_reqs)
    /\ Failed(results) = {} => now - oracle_reqs[i].sent <= ORACLE_TIMEOUT
    /\ oracle_reqs' = RemoveAt(oracle_reqs, i)
    /\ payment_settings' = update_blockchain_info_join4(payment_settings,
                               oracle_reqs[i].zero_window, now, results)
    /\ oracle_ev' = [op |-> "OracleReply",
                     failed |-> Failed(results),
                     zeroed |-> /\ IsOk(results.balance)
                                /\ payment_settings.balance # 0
                                /\ OkValue(results.balance) = 0,
                     net_version |-> results.net_version,
                     nonce |-> IF Failed(results) = {} THEN results.nonce ELSE Err,
                     gas_price |-> IF Failed(results) = {} THEN results.gas_price
                                   ELSE Err]
    /\ UNCHANGED <<zero_window, rl_reqs, now, exit_vars, fee_vars, common_vars>>

(***************************************************************************)
(* rita_loop/mod.rs: the web3 queries of Handler<Tick> for RitaLoop and    *)
(* the closures that take their replies.  The rest of the handler works on *)
(* the gateway flag and on other actors and touches nothing modelled here. *)
(***************************************************************************)
RitaLoopTick ==
    /\ OracleStep
    /\ \A q \in DOMAIN rl_reqs : rl_reqs[q] < MaxInFlight
    /\ rl_reqs' = [q \in DOMAIN rl_reqs |-> rl_reqs[q] + 1]
    /\ oracle_ev' = [op |-> "RitaLoopTick"]
    /\ UNCHANGED <<zero_window, oracle_reqs, shared_vars, exit_vars, fee_vars, common_vars>>

RitaLoopResolved(q) ==
    /\ OracleStep
    /\ rl_reqs[q] > 0
    /\ rl_reqs' = [rl_reqs EXCEPT ![q] = @ - 1]
    /\ UNCHANGED <<zero_window, oracle_reqs, now, exit_vars, fee_vars, common_vars>>

\* the closure on eth_get_balance
RitaLoopBalanceReply(res) ==
    /\ RitaLoopResolved("balance")
    /\ payment_settings' = IF IsOk(res)
                           THEN [payment_settings EXCEPT !.balance = OkValue(res)]
                           ELSE payment_settings
    /\ oracle_ev' = [op |-> "RitaLoopBalanceReply"]

\* the net_version of the closure on net_version
RitaLoopNetVersion(net_version, value) ==
    LET parsed == ParseU64(value)
    IN  IF IsOk(parsed)
        THEN (IF IsSome(net_version) /\ Unwrap(net_version) # OkValue(parsed)
              THEN net_version
              ELSE IF IsNone(net_version) THEN Some(OkValue(parsed))
              ELSE net_version)
        ELSE net_version

RitaLoopNetVersionReply(res) ==
    /\ RitaLoopResolved("net_version")
    /\ payment_settings' =
           IF IsOk(res)
           THEN [payment_settings EXCEPT
                    !.net_version = RitaLoopNetVersion(@, OkValue(res))]
           ELSE payment_settings
    /\ oracle_ev' = [op |-> "RitaLoopNetVersionReply", net_version |-> res]

\* the closure on eth_get_transaction_count
RitaLoopNonceReply(res) ==
    /\ RitaLoopResolved("nonce")
    /\ payment_settings' =
           IF IsOk(res) /\ payment_settings.nonce < OkValue(res)
           THEN [payment_settings EXCEPT !.nonce = OkValue(res)]
           ELSE payment_settings
    /\ oracle_ev' = [op |-> "RitaLoopNonceReply"]

\* the payment settings after the closure on eth_gas_price
RitaLoopGasPrice(ps, value) ==
    LET pay_threshold == TRANSACTION_GAS * value * ps.dynamic_fee_multiplier
    IN  [ps EXCEPT !.pay_threshold = pay_threshold,
                   !.close_threshold = (-1) * ps.dynamic_fee_multiplier * pay_threshold,
                   !.gas_price = value]

RitaLoopGasPriceReply(res) ==
    /\ RitaLoopResolved("gas_price")
    /\ payment_settings' = IF IsOk(res)
                           THEN RitaLoopGasPrice(payment_settings, OkValue(res))
                           ELSE payment_settings
    /\ oracle_ev' = [op |-> "RitaLoopGasPriceReply"]

\* time passes
AdvanceTime(d) ==
    /\ OracleStep
    /\ now' = now + d
    /\ oracle_ev' = [op |-> "AdvanceTime"]
    /\ UNCHANGED <<zero_window, oracle_reqs, rl_reqs, payment_settings, exit_vars, fee_vars,
                   common_vars>>

(***************************************************************************)
(* operator_fee_manager/mod.rs                                             *)
(***************************************************************************)
\* runs of the fee manager are followed for this many steps
MaxFeeSteps == 6

\* the settings the fee manager starts from
PayThresholds == {-5000, 0, 3600000}
OperatorFees == {0, 1000}
OperatorAddresses == {None, Some("operator")}
Identities == {None, Some("our_id")}
PrivateKeys == {None, Some("key")}
\* the period of the loop, and a wait after which 1000 wei/s exceed the
\* largest threshold
FeeTimeSteps == {5, 3601}

\* Uint256::to_int256 and Int256::to_uint256, on the small values of the model
to_int256(u) == Some(u)
to_uint256(i) == IF i >= 0 THEN Some(i) ELSE None
Abs(i) == IF i < 0 THEN 0 - i ELSE i

\* what Handler<Tick> does: "Return" (an early return or should_pay false),
\* "Panic" (no private key) or "Send" with the transaction it broadcasts
OperatorFeeTick(ps, os, id, elapsed_secs) ==
    IF IsNone(id) THEN [act |-> "Return"]
    ELSE IF IsNone(os.operator_address) THEN [act |-> "Return"]
    ELSE IF IsNone(to_int256(os.operator_fee)) THEN [act |-> "Return"]
    ELSE LET operator_fee == Unwrap(to_int256(os.operator_fee))
             should_pay == elapsed_secs * operator_fee > ps.pay_threshold
             amount_to_pay == to_uint256(Abs(ps.pay_threshold))
         IN  IF ~should_pay THEN [act |-> "Return"]
             ELSE IF IsNone(amount_to_pay) THEN [act |-> "Return"]
             ELSE IF IsNone(ps.eth_private_key) THEN [act |-> "Panic"]
             ELSE [act |-> "Send",
                   tx |-> [nonce |-> ps.nonce,
                           gas_price |-> ps.gas_price,
                           gas_limit |-> TRANSACTION_GAS,
                           to |-> Unwrap(os.operator_address),
                           value |-> Unwrap(amount_to_pay),
                           net_version |-> ps.net_version]]

FeeInit ==
    /\ operator_settings = [operator_address |-> None, operator_fee |-> 0]
    /\ identity = None
    /\ last_payment_time = 0
    /\ fee_broadcasts = <<>>
    /\ fee_mailbox = 0
    /\ fee_panicked = FALSE
    /\ fee_steps = 0
    /\ fee_sends = 0
    /\ fee_ev = [op |-> "Init"]

FeeStep ==
    /\ ~fee_panicked
    /\ fee_steps < MaxFeeSteps
    /\ fee_steps' = fee_steps + 1

\* Handler<Tick> for OperatorFeeManager
FeeTick ==
    /\ FeeStep
    /\ \E out \in {OperatorFeeTick(payment_settings, operator_settings, identity,
                                   now - last_payment_time)} :
           /\ out.act = "Send" => Len(fee_broadcasts) < MaxInFlight
           /\ fee_panicked' = (out.act = "Panic")
           /\ fee_broadcasts' = IF out.act = "Send"
                                THEN Append(fee_broadcasts, out.tx)
                                ELSE fee_broadcasts
           /\ fee_sends' = IF out.act = "Send" THEN fee_sends + 1 ELSE fee_sends
           /\ fee_ev' = IF out.act = "Send"
                        THEN [op |-> "Tick", act |-> out.act,
                              nonce |-> out.tx.nonce,
                              value |-> out.tx.value,
                              owed |-> (now - last_payment_time)
                                         * operator_settings.operator_fee,
                              unresolved |-> Len(fee_broadcasts)]
                        ELSE [op |-> "Tick", act |-> out.act]
    /\ UNCHANGED <<operator_settings, identity, last_payment_time, fee_mailbox,
                   shared_vars, oracle_vars, exit_vars, common_vars>>

FeeBroadcastReply_AlwaysNotifies(i, ok) ==
    /\ FeeStep
    /\ i <= Len(fee_broadcasts)
    /\ fee_broadcasts' = RemoveAt(fee_broadcasts, i)
    /\ fee_mailbox' = fee_mailbox + 1
    /\ fee_ev' = [op |-> "BroadcastReply", ok |-> ok]
    /\ UNCHANGED <<operator_settings, identity, last_payment_time, fee_panicked,
                   fee_sends, shared_vars, oracle_vars, exit_vars, common_vars>>

\* the closure on eth_send_raw_transaction: the i-th broadcast resolves (a
\* timeout is an Err); a success sends SuccessfulPayment to the manager
FeeBroadcastReply(i, ok) ==
    /\ FeeStep
    /\ i <= Len(fee_broadcasts)
    /\ fee_broadcasts' = RemoveAt(fee_broadcasts, i)
    /\ fee_mailbox' = IF ok THEN fee_mailbox + 1 ELSE fee_mailbox
    /\ fee_ev' = [op |-> "BroadcastReply", ok |-> ok]
    /\ UNCHANGED <<operator_settings, identity, last_payment_time, fee_panicked,
                   fee_sends, shared_vars, oracle_vars, exit_vars, common_vars>>

\* Handler<SuccessfulPayment>
SuccessfulPayment ==
    /\ FeeStep
    /\ fee_mailbox > 0
    /\ fee_mailbox' = fee_mailbox - 1
    /\ last_payment_time' = now
    /\ fee_ev' = [op |-> "SuccessfulPayment"]
    /\ UNCHANGED <<operator_settings, identity, fee_broadcasts, fee_panicked,
                   fee_sends, shared_vars, oracle_vars, exit_vars, common_vars>>

\* time passes
FeeAdvanceTime(d) ==
    /\ FeeStep
    /\ now' = now + d
    /\ fee_ev' = [op |-> "AdvanceTime"]
    /\ UNCHANGED <<operator_settings, identity, last_payment_time, fee_broadcasts,
                   fee_mailbox, fee_panicked, fee_sends, payment_settings, oracle_vars,
                   exit_vars, common_vars>>

(***************************************************************************)
(* althea_types/src/interop.rs: Identity, its equality and its hash.       *)
(***************************************************************************)
Identity(mesh_ip, eth_address, wg_public_key, nickname) ==
    [mesh_ip |-> mesh_ip,
     eth_address |-> eth_address,
     wg_public_key |-> wg_public_key,
     nickname |-> nickname]

\* the values of the fields: a v4 address, a v6 address and the v6 address
\* with the number of the v4 one; addresses and keys by their bytes
MeshIps == {Ipv4(1, 1, 1, 1), [v4 |-> FALSE, addr |-> 1],
            [v4 |-> FALSE, addr |-> Ipv4(1, 1, 1, 1).addr]}
EthAddresses == {<<0, 1>>, <<1, 0>>}
WgKeys == {<<7, 7>>, <<7, 8>>}
Nicknames == {None, Some("alice"), Some("bob")}
Identities2 == {Identity(ip, a, k, n) : ip \in MeshIps, a \in EthAddresses,
                                         k \in WgKeys, n \in Nicknames}

\* the derived equality, which compares the nickname as well
IdentityEq_Derived(a, b) == a = b

\* impl PartialEq for Identity
IdentityEq(a, b) ==
    /\ a.mesh_ip = b.mesh_ip
    /\ a.eth_address = b.eth_address
    /\ a.wg_public_key = b.wg_public_key

\* what the Hash impls of the fields write to the hasher: IpAddr its variant
\* and its address, Address and WgKey their bytes
HashIpAddr(ip) == <<IF ip.v4 THEN 0 ELSE 1, ip.addr>>
HashBytes(bytes) == <<Len(bytes)>> \o bytes

\* impl Hash for Identity: the words written to the hasher, in order
IdentityHash(id) ==
    HashIpAddr(id.mesh_ip) \o HashBytes(id.eth_address) \o HashBytes(id.wg_public_key)

\* DefaultHasher::finish: a function of the words written and of nothing
\* else (the keys of DefaultHasher::new() are fixed), folded to a small range
RECURSIVE HasherFinish(_, _)
HasherFinish(words, h) ==
    IF words = <<>> THEN h
    ELSE HasherFinish(Tail(words), (h * 31 + Head(words) + 1) % 65521)

\* Identity::get_hash
get_hash(id) == HasherFinish(IdentityHash(id), 0)

IdentityInit == id_ev = [op |-> "Init"]

\* a == b and the two hashes, for the two identities given
IdentityCompare ==
    /\ id_ev.op = "Input"
    /\ id_ev' = [op |-> "Compare", a |-> id_ev.a, b |-> id_ev.b,
                 eq |-> IdentityEq(id_ev.a, id_ev.b),
                 hash_a |-> get_hash(id_ev.a),
                 hash_b |-> get_hash(id_ev.b)]
    /\ UNCHANGED <<exit_vars, shared_vars, oracle_vars, fee_vars, loop_vars, debt_vars,
                   server_vars, babel_vars>>

(***************************************************************************)
(* rita_loop/mod.rs: the future Handler<Tick> for RitaLoop spawns first:   *)
(* GetNeighbors to TunnelManager, then Watch to TrafficWatcher, then       *)
(* SendUpdate to DebtKeeper.  Ticks are numbered from 1.                   *)
(***************************************************************************)
\* the chains of this many ticks are followed
MaxLoopTicks == 2

LoopInit ==
    /\ loop_chains = <<>>
    /\ tw_mailbox = <<>>
    /\ dk_mailbox = <<>>
    /\ loop_panicked = FALSE
    /\ loop_ev = [op |-> "Init", tick |-> 0, log |-> <<>>]


\* history: the last step and the steps so far, each with its tick
LoopEv(op, tick, events) ==
    [op |-> op, tick |-> tick,
     log |-> loop_ev.log \o [i \in 1..Len(events) |-> <<events[i], tick>>]]

\* Handler<Tick>: GetNeighbors is sent and the chain on its reply is spawned
\* on the context of RitaLoop
RitaLoopNeighborsTick ==
    /\ ~loop_panicked
    /\ Len(loop_chains) < MaxLoopTicks
    /\ loop_chains' = Append(loop_chains, "GetNeighbors")
    /\ loop_ev' = LoopEv("Tick", Len(loop_chains) + 1, <<"GetNeighbors">>)
    /\ UNCHANGED <<tw_mailbox, dk_mailbox, loop_panicked, exit_vars, shared_vars,
                   oracle_vars, fee_vars, identity_vars, debt_vars, server_vars, babel_vars>>

\* the first closure with a reply that is Ok(Ok(neighbors)) sends Watch to
\* TrafficWatcher as well as SendUpdate to DebtKeeper
GetNeighborsReply_Parallel(t, res) ==
    /\ ~loop_panicked
    /\ t \in 1..Len(loop_chains)
    /\ loop_chains[t] = "GetNeighbors"
    /\ loop_chains' = [loop_chains EXCEPT ![t] = IF res = "Ok" THEN "Watch" ELSE "Panic"]
    /\ tw_mailbox' = IF res = "Ok" THEN Append(tw_mailbox, t) ELSE tw_mailbox
    /\ dk_mailbox' = IF res = "Ok" THEN Append(dk_mailbox, t) ELSE dk_mailbox
    /\ loop_panicked' = (res # "Ok")
    /\ loop_ev' = IF res = "Ok"
                  THEN LoopEv("GetNeighborsReply", t,
                              <<"GetNeighborsReply", "Watch", "SendUpdate">>)
                  ELSE LoopEv("GetNeighborsReply", t, <<"GetNeighborsReply", "Panic">>)
    /\ UNCHANGED <<exit_vars, shared_vars, oracle_vars, fee_vars, identity_vars, debt_vars,
                   server_vars, babel_vars>>

\* the first closure: res.unwrap().unwrap() on the reply of TunnelManager,
\* which is Ok(Ok(neighbors)), Ok(Err(e)) or Err(MailboxError); then Watch is
\* sent to TrafficWatcher
GetNeighborsReply(t, res) ==
    /\ ~loop_panicked
    /\ t \in 1..Len(loop_chains)
    /\ loop_chains[t] = "GetNeighbors"
    /\ loop_chains' = [loop_chains EXCEPT ![t] = IF res = "Ok" THEN "Watch" ELSE "Panic"]
    /\ tw_mailbox' = IF res = "Ok" THEN Append(tw_mailbox, t) ELSE tw_mailbox
    /\ loop_panicked' = (res # "Ok")
    /\ loop_ev' = IF res = "Ok"
                  THEN LoopEv("GetNeighborsReply", t, <<"GetNeighborsReply", "Watch">>)
                  ELSE LoopEv("GetNeighborsReply", t, <<"GetNeighborsReply", "Panic">>)
    /\ UNCHANGED <<dk_mailbox, exit_vars, shared_vars, oracle_vars, fee_vars,
                   identity_vars, debt_vars, server_vars, babel_vars>>

\* TrafficWatcher handles the oldest Watch of its mailbox and replies, Ok or
\* Err
TrafficWatcherWatch(ok) ==
    /\ ~loop_panicked
    /\ tw_mailbox # <<>>
    /\ tw_mailbox' = Tail(tw_mailbox)
    /\ loop_chains' = [loop_chains EXCEPT ![Head(tw_mailbox)] = "Watched"]
    /\ loop_ev' = LoopEv("Watch", Head(tw_mailbox),
                         <<IF ok THEN "WatchOk" ELSE "WatchErr">>)
    /\ UNCHANGED <<dk_mailbox, loop_panicked, exit_vars, shared_vars, oracle_vars,
                   fee_vars, identity_vars, debt_vars, server_vars, babel_vars>>

\* the second closure, on the reply to Watch whatever it is: do_send of
\* SendUpdate to DebtKeeper
WatchReply(t) ==
    /\ ~loop_panicked
    /\ t \in 1..Len(loop_chains)
    /\ loop_chains[t] = "Watched"
    /\ loop_chains' = [loop_chains EXCEPT ![t] = "Done"]
    /\ dk_mailbox' = Append(dk_mailbox, t)
    /\ loop_ev' = LoopEv("WatchReply", t, <<"SendUpdate">>)
    /\ UNCHANGED <<tw_mailbox, loop_panicked, exit_vars, shared_vars, oracle_vars,
                   fee_vars, identity_vars, debt_vars, server_vars, babel_vars>>

\* DebtKeeper takes the oldest SendUpdate of its mailbox
SendUpdateDelivered ==
    /\ ~loop_panicked
    /\ dk_mailbox # <<>>
    /\ dk_mailbox' = Tail(dk_mailbox)
    /\ loop_ev' = LoopEv("SendUpdateDelivered", Head(dk_mailbox), <<"Delivered">>)
    /\ UNCHANGED <<loop_chains, tw_mailbox, loop_panicked, exit_vars, shared_vars,
                   oracle_vars, fee_vars, identity_vars, debt_vars, server_vars, babel_vars>>

(***************************************************************************)
(* DebtKeeper and PaymentController: the ledger of every neighbor, the     *)
(* action derived from it on SendUpdate, and the way of a MakePayment      *)
(* intent through the controller and back.                                 *)
(***************************************************************************)
\* runs of the ledger are followed for this many steps
MaxDebtSteps == 7
\* debts are followed up to this size
MaxDebt == 24

Neighbors == {"n1", "n2"}
\* what TrafficWatcher adds to the debt of a neighbor in one tick
DebtDeltas == {-12, 6, 12}
\* pay_threshold and close_threshold while the ledger runs
DebtPayThreshold == 10
DebtCloseThreshold == -10

\* the confirmed inbound transactions the payment validator reports: the
\* txid and the amount paid
Txids == {"t1", "t2"}
InboundAmount(txid) == IF txid = "t1" THEN 12 ELSE 6

Ledger(debt, payment_in_flight) ==
    [debt |-> debt, payment_in_flight |-> payment_in_flight]

\* a payment is made whatever is in flight
DebtAction_IgnoresInFlight(ledger, pay_threshold, close_threshold) ==
    IF ledger.debt >= pay_threshold
    THEN "MakePayment"
    ELSE IF ledger.debt <= close_threshold
    THEN "SuspendTunnel"
    ELSE "Normal"

\* the action of a neighbor, derived from (debt, payment_in_flight) and the
\* thresholds; a debt at or over pay_threshold with a payment in flight waits
DebtAction(ledger, pay_threshold, close_threshold) ==
    IF ledger.debt >= pay_threshold /\ IsNone(ledger.payment_in_flight)
    THEN "MakePayment"
    ELSE IF ledger.debt <= close_threshold
    THEN "SuspendTunnel"
    ELSE "Normal"

DebtInit ==
    /\ debt_data = [n \in Neighbors |-> Ledger(0, None)]
    /\ payments = <<>>
    /\ debt_steps = 0
    /\ debt_ev = [op |-> "Init"]
    /\ inbound = [applied |-> [n \in Neighbors |-> {}],
                  changes |-> [n \in Neighbors |-> [t \in Txids |-> 0]]]

(***************************************************************************)
(* src/lib.rs: the monitor of the routing daemon.  A string is a sequence  *)
(* of characters, a character a string of length one; NUL is the byte 0    *)
(* of the read buffer.                                                     *)
(***************************************************************************)
NUL == "NUL"

\* the size of the read buffer of Babel::read, 512 in the code
BabelBufLen == 8

\* a reader is followed for this many calls of stream.read
MaxBabelReads == 8

\* str::contains: needle occurs in hay
Contains(hay, needle) ==
    \E i \in 1..(Len(hay) + 1 - Len(needle)) :
        \A j \in 1..Len(needle) : hay[i + j - 1] = needle[j]

\* str::split on a single character: the pieces between the separators,
\* empty pieces included
Split(str, sep) ==
    LET at == {i \in 1..Len(str) : str[i] = sep}
        \* the position of the k-th separator; 0 and Len(str) + 1 bound the string
        Pos(k) == IF k = 0 THEN 0
                  ELSE IF k > Cardinality(at) THEN Len(str) + 1
                  ELSE CHOOSE p \in at : Cardinality({q \in at : q < p}) = k - 1
    IN  [k \in 1..(Cardinality(at) + 1) |-> SubSeq(str, Pos(k - 1) + 1, Pos(k) - 1)]

RECURSIVE FindFrom(_, _, _)
\* the `while let` of find_babel_val from the i-th token on
FindFrom(val, tokens, i) ==
    IF i > Len(tokens) THEN Err
    ELSE IF Contains(tokens[i], val)
         THEN (IF i + 1 <= Len(tokens) THEN Ok(tokens[i + 1]) ELSE Err)
         ELSE FindFrom(val, tokens, i + 1)

\* Ok(token after the first token that contains val), or Err
find_babel_val(val, line) == FindFrom(val, Split(line, " "), 1)

contains_terminator(message) ==
    \/ Contains(message, <<"\n", "o", "k", "\n">>)
    \/ Contains(message, <<"\n", "n", "o", "\n">>)
    \/ Contains(message, <<"\n", "b", "a", "d", "\n">>)

\* str.parse::<u16>() and ::<u32>(): ParseU64 with the range of the type
ParseUInt(str, max) ==
    LET r == ParseU64(str)
    IN  IF IsOk(r) /\ OkValue(r) <= max THEN r ELSE Err

HexDigits == <<"0", "1", "2", "3", "4", "5", "6", "7", "8", "9", "a", "b", "c", "d", "e", "f">>

RECURSIVE ParseHexDigits(_, _, _)
ParseHexDigits(str, i, acc) ==
    IF i > Len(str) THEN Ok(acc)
    ELSE IF \A d \in 1..16 : HexDigits[d] # str[i] THEN Err
    ELSE ParseHexDigits(str, i + 1,
                        acc * 16 + (CHOOSE d \in 1..16 : HexDigits[d] = str[i]) - 1)

\* u16::from_str_radix(str, 16) on lower-case digits
from_str_radix_16(str) ==
    LET r == IF Len(str) = 0 THEN Err ELSE ParseHexDigits(str, 1, 0)
    IN  IF IsOk(r) /\ OkValue(r) <= U16_MAX THEN r ELSE Err

\* str.parse::<f32>() on the decimals babeld prints (digits '.' digits):
\* Ok(<<whole part, fraction in thousandths>>); the rounding to f32 is left out
ParseF32(str) ==
    LET parts == Split(str, ".")
    IN  IF Len(parts) # 2 \/ Len(parts[2]) # 3 THEN Err
        ELSE LET whole == ParseDigits(parts[1], 1, 0)
                 frac == ParseDigits(parts[2], 1, 0)
             IN  IF Len(parts[1]) = 0 \/ ~IsOk(whole) \/ ~IsOk(frac) THEN Err
                 ELSE Ok(<<OkValue(whole), OkValue(frac)>>)

\* the fields of one Neighbour as the struct literal of parse_neighs reads
\* them, each a Result
NeighbourFields(entry) ==
    [id |-> find_babel_val(<<"n", "e", "i", "g", "h", "b", "o", "u", "r">>, entry),
     iface |-> find_babel_val(<<"i", "f">>, entry),
     reach |-> LET v == find_babel_val(<<"r", "e", "a", "c", "h">>, entry)
               IN  IF IsOk(v) THEN from_str_radix_16(OkValue(v)) ELSE Err,
     txcost |-> LET v == find_babel_val(<<"t", "x", "c", "o", "s", "t">>, entry)
                IN  IF IsOk(v) THEN ParseUInt(OkValue(v), U16_MAX) ELSE Err,
     rxcost |-> LET v == find_babel_val(<<"r", "x", "c", "o", "s", "t">>, entry)
                IN  IF IsOk(v) THEN ParseUInt(OkValue(v), U16_MAX) ELSE Err,
     rtt |-> LET v == find_babel_val(<<"r", "t", "t">>, entry)
             IN  IF IsOk(v) THEN ParseF32(OkValue(v)) ELSE Err,
     rttcost |-> LET v == find_babel_val(<<"r", "t", "t", "c", "o", "s", "t">>, entry)
                 IN  IF IsOk(v) THEN ParseUInt(OkValue(v), U16_MAX) ELSE Err,
     cost |-> LET v == find_babel_val(<<"c", "o", "s", "t">>, entry)
              IN  IF IsOk(v) THEN ParseUInt(OkValue(v), U16_MAX) ELSE Err]

\* the fields of one Route of an `add route` line
RouteFields(entry) ==
    [id |-> find_babel_val(<<"r", "o", "u", "t", "e">>, entry),
     iface |-> find_babel_val(<<"i", "f">>, entry),
     xroute |-> Ok(FALSE),
     installed |-> LET v == find_babel_val(<<"i", "n", "s", "t", "a", "l", "l", "e", "d">>, entry)
                   IN  IF IsOk(v) THEN Ok(Contains(OkValue(v), <<"y", "e", "s">>)) ELSE Err,
     neigh_ip |-> find_babel_val(<<"v", "i", "a">>, entry),
     prefix |-> find_babel_val(<<"p", "r", "e", "f", "i", "x">>, entry),
     metric |-> LET v == find_babel_val(<<"m", "e", "t", "r", "i", "c">>, entry)
                IN  IF IsOk(v) THEN ParseUInt(OkValue(v), U16_MAX) ELSE Err,
     refmetric |-> LET v == find_babel_val(<<"r", "e", "f", "m", "e", "t", "r", "i", "c">>, entry)
                   IN  IF IsOk(v) THEN ParseUInt(OkValue(v), U16_MAX) ELSE Err,
     \* parse::<u32>(): the prices of the model are far below u32::MAX
     price |-> LET v == find_babel_val(<<"p", "r", "i", "c", "e">>, entry)
               IN  IF IsOk(v) THEN ParseU64(OkValue(v)) ELSE Err]

\* the fields of one Route of an `add xroute` line
XRouteFields(entry) ==
    [id |-> Ok(<<"X", "R", "O", "U", "T", "E">>),
     iface |-> Ok(<<"X", "R", "O", "U", "T", "E">>),
     xroute |-> Ok(TRUE),
     installed |-> Ok(TRUE),
     neigh_ip |-> Ok(<<"X", "R", "O", "U", "T", "E">>),
     prefix |-> find_babel_val(<<"p", "r", "e", "f", "i", "x">>, entry),
     metric |-> LET v == find_babel_val(<<"m", "e", "t", "r", "i", "c">>, entry)
                IN  IF IsOk(v) THEN ParseUInt(OkValue(v), U16_MAX) ELSE Err,
     refmetric |-> Ok(0),
     price |-> Ok(0)]

RECURSIVE CollectFrom(_, _, _)
\* the `for entry in ...` loops of parse_neighs and parse_routes: fields is
\* the sequence of the field records of the lines that are parsed, in order.
\* A field that is Err ends the call with Err (the ? operator)
CollectFrom(fields, i, acc) ==
    IF i > Len(fields) THEN Ok(acc)
    ELSE IF \E f \in DOMAIN fields[i] : ~IsOk(fields[i][f]) THEN Err
    ELSE CollectFrom(fields, i + 1,
                     Append(acc, [f \in DOMAIN fields[i] |-> OkValue(fields[i][f])]))

\* the lines of a reply that contain what
EntriesWith(reply, what) ==
    LET Holds(entry) == Contains(entry, what)
    IN  SelectSeq(Split(reply, "\n"), Holds)

\* parse_neighs on the string read() returned
parse_neighs(reply) ==
    LET entries == EntriesWith(reply, <<"a", "d", "d", " ", "n", "e", "i", "g", "h", "b", "o", "u", "r">>)
    IN  CollectFrom([i \in 1..Len(entries) |-> NeighbourFields(entries[i])], 1, <<>>)

\* parse_routes on the string read() returned
parse_routes(table) ==
    LET IsRoute(entry) == Contains(entry, <<"a", "d", "d", " ", "r", "o", "u", "t", "e">>)
        IsParsed(entry) == IsRoute(entry) \/ Contains(entry, <<"a", "d", "d", " ", "x", "r", "o", "u", "t", "e">>)
        entries == SelectSeq(Split(table, "\n"), IsParsed)
    IN  CollectFrom([i \in 1..Len(entries) |->
                        IF IsRoute(entries[i]) THEN RouteFields(entries[i])
                        ELSE XRouteFields(entries[i])], 1, <<>>)

\* one step of a reader: stream.read(&mut data) takes the bytes that have
\* arrived, one chunk of at most BabelBufLen bytes, and writes them over the
\* start of data; what lies behind them stays.  With nothing pending the
\* read blocks, or returns Ok(0) when the daemon has closed the connection
StreamRead(data, chunk) ==
    chunk \o SubSeq(data, Len(chunk) + 1, Len(data))

\* a reader with the buffer zeroed, before the first stream.read
BabelReader(wire, eof) ==
    [op |-> "Read", pc |-> "first", wire |-> wire, eof |-> eof,
     data |-> [i \in 1..BabelBufLen |-> NUL], ret |-> <<>>, received |-> <<>>,
     reads |-> 0]

\* Babel::read up to its first stream.read
BabelReadFirst ==
    /\ babel.op = "Read"
    /\ babel.pc = "first"
    /\ babel.wire # <<>> \/ babel.eof
    /\ \E chunk \in {IF babel.wire # <<>> THEN Head(babel.wire) ELSE <<>>} :
           \E data \in {StreamRead(babel.data, chunk)} :
               babel' = [babel EXCEPT !.pc = "loop",
                                      !.wire = IF babel.wire # <<>> THEN Tail(babel.wire)
                                               ELSE <<>>,
                                      !.data = data,
                                      !.ret = data,
                                      !.received = chunk,
                                      !.reads = 1]
    /\ UNCHANGED <<exit_vars, shared_vars, oracle_vars, fee_vars, identity_vars,
                   loop_vars, debt_vars, server_vars>>

\* one pass of the loop of Babel::read: a stream.read, the whole buffer
\* appended to ret, and the test of the buffer for a terminator
BabelReadLoop ==
    /\ babel.op = "Read"
    /\ babel.pc = "loop"
    /\ babel.wire # <<>> \/ babel.eof
    /\ babel.reads < MaxBabelReads
    /\ \E chunk \in {IF babel.wire # <<>> THEN Head(babel.wire) ELSE <<>>} :
           \E message \in {StreamRead(babel.data, chunk)} :
               babel' = [babel EXCEPT !.pc = IF contains_terminator(message)
                                             THEN "done" ELSE "loop",
                                      !.wire = IF babel.wire # <<>> THEN Tail(babel.wire)
                                               ELSE <<>>,
                                      !.data = message,
                                      !.ret = babel.ret \o message,
                                      !.received = babel.received \o chunk,
                                      !.reads = babel.reads + 1]
    /\ UNCHANGED <<exit_vars, shared_vars, oracle_vars, fee_vars, identity_vars,
                   loop_vars, debt_vars, server_vars>>

\* parse_neighs applied to what read() returned
BabelParseNeighs ==
    /\ babel.op = "Input"
    /\ babel.kind = "neighs"
    /\ \E out \in {parse_neighs(babel.reply)} :
           babel' = [op |-> "parse_neighs", reply |-> babel.reply, out |-> out]
    /\ UNCHANGED <<exit_vars, shared_vars, oracle_vars, fee_vars, identity_vars,
                   loop_vars, debt_vars, server_vars>>

\* parse_routes applied to what read() returned
BabelParseRoutes ==
    /\ babel.op = "Input"
    /\ babel.kind = "routes"
    /\ \E out \in {parse_routes(babel.reply)} :
           babel' = [op |-> "parse_routes", reply |-> babel.reply, out |-> out]
    /\ UNCHANGED <<exit_vars, shared_vars, oracle_vars, fee_vars, identity_vars,
                   loop_vars, debt_vars, server_vars>>

BabelInit == babel = [op |-> "Init"]

ServerInit == other_exit = SelectedExit(None, None, None, None)

CommonInit == IdentityInit /\ LoopInit /\ DebtInit /\ ServerInit /\ BabelInit

DebtStep ==
    /\ debt_steps < MaxDebtSteps
    /\ debt_steps' = debt_steps + 1

\* TrafficWatcher: debt[n] += delta
TrafficUpdate(n, delta) ==
    /\ DebtStep
    /\ debt_data[n].debt + delta \in (0 - MaxDebt)..MaxDebt
    /\ debt_data' = [debt_data EXCEPT ![n].debt = @ + delta]
    /\ debt_ev' = [op |-> "TrafficUpdate"]
    /\ UNCHANGED <<payments, exit_vars, shared_vars, oracle_vars, fee_vars,
                   identity_vars, loop_vars, inbound, server_vars, babel_vars>>

\* the neighbors in a fixed order, and the intents a SendUpdate emits
NeighborOrder == <<"n1", "n2">>

RECURSIVE Intents(_, _)
Intents(i, paying) ==
    IF i > Len(NeighborOrder) THEN <<>>
    ELSE IF NeighborOrder[i] \in paying
    THEN <<[to |-> NeighborOrder[i],
            amount |-> debt_data[NeighborOrder[i]].debt,
            stage |-> "Intent"]>> \o Intents(i + 1, paying)
    ELSE Intents(i + 1, paying)

\* DebtKeeper on SendUpdate: for every neighbor whose action is MakePayment
\* the intent {amount = debt} is emitted and payment_in_flight is set in the
\* same step; the debt stays
SendUpdate ==
    /\ DebtStep
    /\ \E paying \in {{n \in Neighbors :
                         DebtAction(debt_data[n], payment_settings.pay_threshold,
                                    payment_settings.close_threshold) = "MakePayment"}} :
           /\ debt_data' = [n \in Neighbors |->
                              IF n \in paying
                              THEN Ledger(debt_data[n].debt, Some(debt_data[n].debt))
                              ELSE debt_data[n]]
           /\ payments' = payments \o Intents(1, paying)
           /\ debt_ev' = [op |-> "SendUpdate", emitted |-> paying]
    /\ UNCHANGED <<exit_vars, shared_vars, oracle_vars, fee_vars, identity_vars,
                   loop_vars, inbound, server_vars, babel_vars>>

\* PaymentController takes an intent: without a private key it refuses and
\* signals failure; otherwise it signs, broadcasts and increments the nonce
\* before the reply
MakePayment(i) ==
    /\ DebtStep
    /\ i \in 1..Len(payments)
    /\ payments[i].stage = "Intent"
    /\ payments' = [payments EXCEPT ![i].stage =
                       IF IsNone(payment_settings.eth_private_key)
                       THEN "Failure" ELSE "Broadcast"]
    /\ payment_settings' = IF IsNone(payment_settings.eth_private_key)
                           THEN payment_settings
                           ELSE [payment_settings EXCEPT !.nonce = @ + 1]
    /\ debt_ev' = [op |-> "MakePayment"]
    /\ UNCHANGED <<debt_data, now, exit_vars, oracle_vars, fee_vars, identity_vars,
                   loop_vars, inbound, server_vars, babel_vars>>

\* the broadcast is acknowledged with a txid, or fails or times out; the
\* controller signals success or failure to DebtKeeper
PaymentBroadcastReply(i, ok) ==
    /\ DebtStep
    /\ i \in 1..Len(payments)
    /\ payments[i].stage = "Broadcast"
    /\ payments' = [payments EXCEPT ![i].stage = IF ok THEN "Success" ELSE "Failure"]
    /\ debt_ev' = [op |-> "BroadcastReply", ok |-> ok]
    /\ UNCHANGED <<debt_data, exit_vars, shared_vars, oracle_vars, fee_vars,
                   identity_vars, loop_vars, inbound, server_vars, babel_vars>>

\* DebtKeeper on the report of the controller: payment_in_flight is cleared,
\* and on success the debt is decremented by the amount paid
PaymentReport(i) ==
    /\ DebtStep
    /\ i \in 1..Len(payments)
    /\ payments[i].stage \in {"Success", "Failure"}
    /\ debt_data' = [debt_data EXCEPT ![payments[i].to] =
                        Ledger(IF payments[i].stage = "Success"
                               THEN @.debt - payments[i].amount
                               ELSE @.debt,
                               None)]
    /\ payments' = RemoveAt(payments, i)
    /\ debt_ev' = [op |-> "PaymentReport", stage |-> payments[i].stage]
    /\ UNCHANGED <<exit_vars, shared_vars, oracle_vars, fee_vars, identity_vars,
                   loop_vars, inbound, server_vars, babel_vars>>

\* a report is credited whether or not its txid was applied before
IncomingPayment_NoDeduplication(from, txid) ==
    /\ DebtStep
    /\ debt_data[from].debt - InboundAmount(txid) \in (0 - MaxDebt)..MaxDebt
    /\ debt_data' = [debt_data EXCEPT ![from].debt = @ - InboundAmount(txid)]
    /\ inbound' = [applied |-> [inbound.applied EXCEPT ![from] = @ \cup {txid}],
                   changes |-> [inbound.changes EXCEPT ![from][txid] = @ + 1]]
    /\ debt_ev' = [op |-> "IncomingPayment", from |-> from, txid |-> txid,
                   replay |-> txid \in inbound.applied[from]]
    /\ UNCHANGED <<payments, exit_vars, shared_vars, oracle_vars, fee_vars,
                   identity_vars, loop_vars, server_vars, babel_vars>>

\* DebtKeeper on the report of a confirmed inbound transaction from a
\* neighbor: a txid not yet applied for this neighbor is credited,
\* debt -= amount, and remembered; a txid applied before changes nothing
IncomingPayment(from, txid) ==
    /\ DebtStep
    /\ debt_data[from].debt - InboundAmount(txid) \in (0 - MaxDebt)..MaxDebt
    /\ debt_data' = IF txid \in inbound.applied[from]
                    THEN debt_data
                    ELSE [debt_data EXCEPT ![from].debt = @ - InboundAmount(txid)]
    /\ inbound' = IF txid \in inbound.applied[from]
                  THEN inbound
                  ELSE [applied |-> [inbound.applied EXCEPT ![from] = @ \cup {txid}],
                        changes |-> [inbound.changes EXCEPT ![from][txid] = @ + 1]]
    /\ debt_ev' = [op |-> "IncomingPayment", from |-> from, txid |-> txid,
                   replay |-> txid \in inbound.applied[from]]
    /\ UNCHANGED <<payments, exit_vars, shared_vars, oracle_vars, fee_vars,
                   identity_vars, loop_vars, server_vars, babel_vars>>

(***************************************************************************)
(* The specifications.  Each runs one component from its state after       *)
(* construction and holds the others still.                                *)
(***************************************************************************)
DefaultPaymentSettings == PaymentSettings(5, 0, None)

ExitSpecInit ==
    /\ ExitInit
    /\ now = 0
    /\ payment_settings = DefaultPaymentSettings
    /\ OracleInit
    /\ CommonInit
    /\ FeeInit

ExitNext == \E routes \in Snapshots : ExitManagerTick(routes)

SpecExit == ExitSpecInit /\ [][ExitNext]_vars

\* the exit manager followed through two switches: a failover, a window
\* filled by another exit, the switch to it, and the same once more
HoldMetrics == {60, 80, 100}
HoldSnapshots == {<<>>} \cup {<<[prefix_ip |-> ip, metric |-> m]>> : ip \in CandidateIPs, m \in HoldMetrics} \cup {<<[prefix_ip |-> ExitA, metric |-> a], [prefix_ip |-> ExitB, metric |-> b]>> : a \in HoldMetrics, b \in HoldMetrics}
HoldTicks == 3 * METRIC_ENTRIES + 2

HoldNext == \E routes \in HoldSnapshots : ExitTick(routes, HoldTicks, FALSE)

SpecHold == ExitSpecInit /\ [][HoldNext]_vars

\* the exit manager with a selected exit that stays up while another exit
\* shows a lower metric on every tick, in endless runs
StuckCurrent == {100, 110}
StuckOther == {0, 80, 89, 90, 95}
StuckSnapshots == {<<[prefix_ip |-> ExitA, metric |-> a], [prefix_ip |-> ExitB, metric |-> b]>> : a \in StuckCurrent, b \in StuckOther}
StuckTicks == 3

\* the first call finds the one exit that is up and selects it
StuckSelect ==
    /\ exit_ticks = 0
    /\ \E a \in StuckCurrent : ExitTick(<<[prefix_ip |-> ExitA, metric |-> a]>>, StuckTicks, TRUE)

StuckTick ==
    /\ exit_ticks > 0
    /\ \E routes \in StuckSnapshots : ExitTick(routes, StuckTicks, TRUE)

StuckNext == StuckSelect \/ StuckTick

\* the client loop calls set_best_exit on every tick: while the manager has
\* not panicked another call is made, and every call changes exit_ticks
ExitClock == ~panicked /\ exit_ticks' = TicksAfter(exit_ticks, StuckTicks)

SpecStuck == ExitSpecInit /\ [][StuckNext]_vars /\ WF_exit_ticks(ExitClock)

MetricsSpecInit ==
    /\ MetricsInit
    /\ now = 0
    /\ payment_settings = DefaultPaymentSettings
    /\ OracleInit
    /\ CommonInit
    /\ FeeInit

MetricsNext == \E routes \in Snapshots : GetExitMetrics(routes)

SpecMetrics == MetricsSpecInit /\ [][MetricsNext]_vars

\* two ExitServers ticked in any order against the same statics
SharedNext == \E k \in ExitServers, routes \in Snapshots : SharedExitTick(k, routes)

SpecShared == ExitSpecInit /\ [][SharedNext]_vars

\* Identity on its own: every pair of identities is compared
IdentitySpecInit ==
    /\ ExitInit
    /\ now = 0
    /\ payment_settings = DefaultPaymentSettings
    /\ OracleInit
    /\ FeeInit
    /\ LoopInit
    /\ DebtInit
    /\ ServerInit
    /\ BabelInit
    /\ \E a \in Identities2, b \in Identities2 : id_ev = [op |-> "Input", a |-> a, b |-> b]

IdentityNext == IdentityCompare

SpecIdentity == IdentitySpecInit /\ [][IdentityNext]_vars

\* the neighbor chains of the first ticks of the common loop
GetNeighborsReplies == {"Ok", "Err", "MailboxError"}

LoopNext ==
    \/ RitaLoopNeighborsTick
    \/ \E t \in 1..MaxLoopTicks, res \in GetNeighborsReplies : GetNeighborsReply(t, res)
    \/ \E ok \in BOOLEAN : TrafficWatcherWatch(ok)
    \/ \E t \in 1..MaxLoopTicks : WatchReply(t)
    \/ SendUpdateDelivered

SpecLoop == ExitSpecInit /\ [][LoopNext]_vars

\* the ledger of two neighbors, with and without a private key
DebtSpecInit ==
    /\ ExitInit
    /\ now = 0
    /\ \E k \in PrivateKeys :
           payment_settings = [DefaultPaymentSettings
                                  EXCEPT !.pay_threshold = DebtPayThreshold,
                                         !.close_threshold = DebtCloseThreshold,
                                         !.eth_private_key = k]
    /\ OracleInit
    /\ FeeInit
    /\ IdentityInit
    /\ LoopInit
    /\ DebtInit
    /\ ServerInit
    /\ BabelInit

DebtNext ==
    \/ \E n \in Neighbors, delta \in DebtDeltas : TrafficUpdate(n, delta)
    \/ SendUpdate
    \/ \E i \in 1..Cardinality(Neighbors) : MakePayment(i)
    \/ \E i \in 1..Cardinality(Neighbors), ok \in BOOLEAN : PaymentBroadcastReply(i, ok)
    \/ \E i \in 1..Cardinality(Neighbors) : PaymentReport(i)
    \/ \E from \in Neighbors, txid \in Txids : IncomingPayment(from, txid)

SpecDebt == DebtSpecInit /\ [][DebtNext]_vars

(***************************************************************************)
(* The monitor of the routing daemon on its own: a reply of the daemon and *)
(* one of the parsers, or a reply cut into chunks and a reader.            *)
(***************************************************************************)
\* the numbers a line of the model carries
BabelNumbers == {<<"2", "5", "6">>, <<"1", "3", "0", "6">>}

\* `add neighbour` as babeld prints it
NeighLine(rxcost, txcost, rttcost, cost) ==
    <<"a", "d", "d", " ", "n", "e", "i", "g", "h", "b", "o", "u", "r", " ", "1", "4", "f", "0", " ", "a", "d", "d", "r", "e", "s", "s", " ", "f", "e", "8", "0", ":", ":", "1", " ", "i", "f", " ", "w", "g", "0", " ", "r", "e", "a", "c", "h", " ", "f", "f", "f", "f", " ", "r", "x", "c", "o", "s", "t", " ">> \o rxcost
        \o <<" ", "t", "x", "c", "o", "s", "t", " ">> \o txcost \o <<" ", "r", "t", "t", " ", "2", "9", ".", "2", "6", "4", " ", "r", "t", "t", "c", "o", "s", "t", " ">> \o rttcost
        \o <<" ", "c", "o", "s", "t", " ">> \o cost

\* `add route` as babeld prints it
RouteLine(installed, metric, price, refmetric) ==
    <<"a", "d", "d", " ", "r", "o", "u", "t", "e", " ", "1", "4", "f", "8", " ", "p", "r", "e", "f", "i", "x", " ", "1", "0", ".", "0", ".", "0", ".", "7", "/", "3", "2", " ", "f", "r", "o", "m", " ", "0", ".", "0", ".", "0", ".", "0", "/", "0", " ", "i", "n", "s", "t", "a", "l", "l", "e", "d", " ">> \o installed
        \o <<" ", "i", "d", " ", "b", "a", ":", "2", "7", " ", "m", "e", "t", "r", "i", "c", " ">> \o metric \o <<" ", "p", "r", "i", "c", "e", " ">> \o price
        \o <<" ", "r", "e", "f", "m", "e", "t", "r", "i", "c", " ">> \o refmetric \o <<" ", "v", "i", "a", " ", "f", "e", "8", "0", ":", ":", "2", " ", "i", "f", " ", "w", "l", "a", "n", "0">>

XRouteLine == <<"a", "d", "d", " ", "x", "r", "o", "u", "t", "e", " ", "1", "0", ".", "0", ".", "0", ".", "1", "/", "3", "2", "-", ":", ":", "/", "0", " ", "p", "r", "e", "f", "i", "x", " ", "1", "0", ".", "0", ".", "0", ".", "1", "/", "3", "2", " ", "f", "r", "o", "m", " ", ":", ":", "/", "0", " ", "m", "e", "t", "r", "i", "c", " ", "0">>

\* what read() returns for a dump: the lines, the terminator and the rest of
\* the buffer
DumpReply(line) ==
    <<"l", "o", "c", "a", "l", " ", "p", "r", "i", "c", "e", " ", "1", "0", "2", "4", "\n">> \o XRouteLine \o <<"\n">> \o line \o <<"\n", "o", "k", "\n", NUL, NUL>>

BabelParseInputs ==
    {[op |-> "Input", kind |-> "neighs", reply |-> DumpReply(NeighLine(rx, tx, rc, c))] :
        rx \in BabelNumbers, tx \in BabelNumbers, rc \in BabelNumbers, c \in BabelNumbers}
    \cup
    {[op |-> "Input", kind |-> "routes", reply |-> DumpReply(RouteLine(i, m, p, r))] :
        i \in {<<"y", "e", "s">>, <<"n", "o">>}, m \in BabelNumbers, p \in BabelNumbers,
        r \in BabelNumbers}

\* the replies a reader is given: one line and a terminator line
ReadReplies == {<<"a", "\n", "o", "k", "\n">>, <<"a", "\n", "n", "o", "\n">>, <<"a", "\n", "b", "a", "d", "\n">>}

RECURSIVE Chunkings(_)
\* every way of cutting str into consecutive chunks that are not empty; the
\* replies are shorter than the buffer, so no chunk is longer than a read takes
Chunkings(str) ==
    IF str = <<>> THEN {<<>>}
    ELSE UNION {{<<SubSeq(str, 1, k)>> \o rest : rest \in Chunkings(SubSeq(str, k + 1, Len(str)))} :
                   k \in 1..Len(str)}

BabelReadInputs ==
    UNION {{BabelReader(wire, eof) : wire \in Chunkings(reply), eof \in BOOLEAN} :
              reply \in ReadReplies}

BabelSpecInit ==
    /\ ExitInit
    /\ now = 0
    /\ payment_settings = DefaultPaymentSettings
    /\ OracleInit
    /\ FeeInit
    /\ IdentityInit
    /\ LoopInit
    /\ DebtInit
    /\ ServerInit
    /\ babel \in BabelParseInputs \cup BabelReadInputs

BabelNext ==
    \/ BabelParseNeighs
    \/ BabelParseRoutes
    \/ BabelReadFirst
    \/ BabelReadLoop

SpecBabel == BabelSpecInit /\ [][BabelNext]_vars

WorthSpecInit ==
    /\ WorthInit
    /\ now = 0
    /\ payment_settings = DefaultPaymentSettings
    /\ OracleInit
    /\ CommonInit
    /\ FeeInit

WorthNext == \E ip \in CandidateIPs : WorthSwitching(ip)

SpecWorth == WorthSpecInit /\ [][WorthNext]_vars

OracleSpecInit ==
    /\ ExitInit
    /\ now = 0
    /\ \E b \in InitBalances, n \in InitNonces, g \in InitMinGas :
           payment_settings = [PaymentSettings(b, n, None) EXCEPT !.min_gas = g]
    /\ OracleInit
    /\ CommonInit
    /\ FeeInit

OracleNext ==
    \/ ZeroWindowStart
    \/ OracleUpdate
    \/ \E i \in 1..MaxInFlight, results \in JoinResults : OracleReply(i, results)
    \/ RitaLoopTick
    \/ \E res \in WebResults(BalanceReplies) : RitaLoopBalanceReply(res)
    \/ \E res \in WebResults(NetVersionReplies) : RitaLoopNetVersionReply(res)
    \/ \E res \in WebResults(NonceReplies) : RitaLoopNonceReply(res)
    \/ \E res \in WebResults(GasPriceReplies) : RitaLoopGasPriceReply(res)
    \/ \E d \in TimeSteps : AdvanceTime(d)

SpecOracle == OracleSpecInit /\ [][OracleNext]_vars

FeeSpecInit ==
    /\ ExitInit
    /\ OracleInit
    /\ CommonInit
    /\ now = 0
    /\ \E t \in PayThresholds, k \in PrivateKeys :
           payment_settings = [DefaultPaymentSettings EXCEPT !.pay_threshold = t,
                                                            !.eth_private_key = k]
    /\ \E a \in OperatorAddresses, f \in OperatorFees :
           operator_settings = [operator_address |-> a, operator_fee |-> f]
    /\ identity \in Identities
    /\ last_payment_time = 0
    /\ fee_broadcasts = <<>>
    /\ fee_mailbox = 0
    /\ fee_panicked = FALSE
    /\ fee_steps = 0
    /\ fee_sends = 0
    /\ fee_ev = [op |-> "Init"]

FeeNext ==
    \/ FeeTick
    \/ \E i \in 1..MaxInFlight, ok \in BOOLEAN : FeeBroadcastReply(i, ok)
    \/ SuccessfulPayment
    \/ \E d \in FeeTimeSteps : FeeAdvanceTime(d)

SpecFee == FeeSpecInit /\ [][FeeNext]_vars

\* the fee manager of a client that owes its operator, next to the oracle and
\* to the nonce query of the common loop: the local sends and the refreshes
\* of the cached nonce
NonceSpecInit ==
    /\ ExitInit
    /\ OracleInit
    /\ CommonInit
    /\ now = 0
    /\ \E n \in InitNonces : payment_settings = PaymentSettings(5, n, None)
    /\ operator_settings = [operator_address |-> Some("operator"), operator_fee |-> 1000]
    /\ identity = Some("our_id")
    /\ last_payment_time = 0
    /\ fee_broadcasts = <<>>
    /\ fee_mailbox = 0
    /\ fee_panicked = FALSE
    /\ fee_steps = 0
    /\ fee_sends = 0
    /\ fee_ev = [op |-> "Init"]

\* the replies to one Update that differ in the transaction count, with every
\* query answered or the gas price query failed
NonceJoinResults ==
    [balance : {Ok(5)},
     nonce : WebResults(NonceReplies),
     net_version : {Ok(<<"1">>)},
     gas_price : WebResults({0})]

NonceNext ==
    \/ FeeTick
    \/ \E i \in 1..MaxInFlight, ok \in BOOLEAN : FeeBroadcastReply(i, ok)
    \/ SuccessfulPayment
    \/ \E d \in FeeTimeSteps : FeeAdvanceTime(d)
    \/ OracleUpdate
    \/ \E i \in 1..MaxInFlight, results \in NonceJoinResults : OracleReply(i, results)
    \/ RitaLoopTick
    \/ \E res \in WebResults(NonceReplies) : RitaLoopNonceReply(res)

SpecNonce == NonceSpecInit /\ [][NonceNext]_vars

(***************************************************************************)
(* Claims about the exit switcher, checked under SpecExit.                 *)
(***************************************************************************)
AllTrackersZero == \A ip \in DOMAIN exit_tracker : exit_tracker[ip] = ExitTracker(0, 0, 0)

Ticked == exit_ev.ret # "Init"

\* C4: on a tick where the selected exit is down (unset, without a route, or
\* with only infinite routes) and some route into the subnet has a finite
\* metric, the tick ends with the minimum-metric exit selected and tracked,
\* its metric as selected metric, no degradation, an empty window and every
\* ExitTracker zeroed.
C4_ExitFailover ==
    (/\ Ticked
     /\ exit_ev.claim_down
     /\ IsSome(exit_ev.best_min)
     /\ Unwrap(exit_ev.best_min) < U16_MAX)
    => /\ exit_ev.ret = "Ok"
       /\ ~panicked
       /\ IsSome(selected_exit.selected_id)
       /\ check_ip_in_subnet(Unwrap(selected_exit.selected_id), ExitSubnet)
       /\ exit_ev.sel_min = exit_ev.best_min
       /\ selected_exit.selected_id_metric = exit_ev.best_min
       /\ selected_exit.selected_id_degradation = None
       /\ selected_exit.tracking_exit = selected_exit.selected_id
       /\ metric_values = <<>>
       /\ AllTrackersZero

\* a failover away from a selected exit, on a tick that started with a full window
C4_Witness ==
    /\ Ticked
    /\ exit_ev.claim_down
    /\ exit_ev.was_full
    /\ exit_ev.ret = "Ok"
    /\ selected_exit.selected_id = Some(ExitB)
    /\ exit_ev.best_min = Some(80)

\* C5: selected_id changes on a tick only if the selected exit was down on
\* that tick or the window was full when the tick started, and the codes
\* SwitchExit and ContinueCurrentReset come only from a tick that started
\* with a full window.
C5_NoSwitchBeforeFull ==
    Ticked =>
        /\ exit_ev.changed => (exit_ev.claim_down \/ exit_ev.was_full)
        /\ (exit_ev.code \in {"SwitchExit", "ContinueCurrentReset"}) => exit_ev.was_full

\* the selected exit was up and the tick moved the selection to another exit
C5_Witness ==
    /\ Ticked
    /\ exit_ev.code = "SwitchExit"
    /\ exit_ev.ret = "Ok"
    /\ ~exit_ev.claim_down
    /\ exit_ev.was_full
    /\ exit_ev.changed

\* C6: a tick that ends in SwitchExit selects the exit that was tracked while
\* the window filled, keeps tracking it, and takes that exit's metric as the
\* selected metric.
C6_SwitchCommitsTracked ==
    [][(/\ exit_ev'.code = "SwitchExit"
        /\ exit_ev'.ret = "Ok"
        /\ ~exit_ev'.is_exit_down)
       => /\ selected_exit'.selected_id = selected_exit.tracking_exit
          /\ selected_exit'.tracking_exit = selected_exit.tracking_exit
          /\ selected_exit'.selected_id_metric = exit_ev'.sel_min]_vars

\* C7: whenever selected metric and degradation are both set, their sum is at
\* most the minimum metric the tick's snapshot holds for the selected exit.
C7_DegradationInvariant ==
    (/\ Ticked
     /\ exit_ev.ret = "Ok"
     /\ IsSome(selected_exit.selected_id_metric)
     /\ IsSome(selected_exit.selected_id_degradation)
     /\ IsSome(exit_ev.sel_min))
    => Unwrap(selected_exit.selected_id_metric)
         + Unwrap(selected_exit.selected_id_degradation)
       <= Unwrap(exit_ev.sel_min)

\* C8: after a tick each exit's running_total is the sum of its per-tick
\* minimum metrics since the last reset and ticker_len the number of ticks
\* that saw it.
C8_TrackerAccounting ==
    ~panicked =>
        /\ \A ip \in DOMAIN exit_tracker :
              /\ ip \in CandidateIPs
              /\ exit_tracker[ip].running_total = acct[ip].total
              /\ exit_tracker[ip].ticker_len = acct[ip].len
        /\ \A ip \in CandidateIPs \ DOMAIN exit_tracker : acct[ip].len = 0

\* RelU: the difference, or 0 when it would be negative
RelU(n) == IF n < 0 THEN 0 ELSE n

\* C15: a tick that yields ContinueCurrentReset sets selected_degradation to
\* max(0, babel metric of the selected exit - selected_metric): to the set
\* value 0, not to None, when the babel metric is below selected_metric.
C15_DegradationAtReset ==
    [][(/\ exit_ev'.ret = "Ok"
        /\ exit_ev'.code = "ContinueCurrentReset"
        /\ ~exit_ev'.is_exit_down)
       => selected_exit'.selected_id_degradation =
              Some(RelU(Unwrap(exit_ev'.sel_min)
                          - Unwrap(selected_exit.selected_id_metric)))]_vars

RECURSIVE WindowSum(_)
WindowSum(w) == IF w = <<>> THEN 0 ELSE Head(w) + WindowSum(Tail(w))

\* C17: worth_switching_tracking_exit returns true if and only if the window
\* is not empty, the best exit's ticker_len is not 0, the best exit's average
\* floor(running_total / ticker_len) is neither 0 nor above the window's
\* average floor(sum / len), and ten times the difference of the averages
\* exceeds the window's average; an improvement of exactly one tenth returns
\* false.  Checked under SpecWorth.
C17_TenPercentRule ==
    exit_ev.ret = "Worth" =>
        LET w == metric_values
            t == exit_tracker[exit_ev.best_ip]
        IN  exit_ev.value <=>
                /\ w # <<>>
                /\ t.ticker_len # 0
                /\ LET avg_best == t.running_total \div t.ticker_len
                       avg_tracking == WindowSum(w) \div Len(w)
                   IN  /\ avg_best # 0
                       /\ avg_best <= avg_tracking
                       /\ 10 * (avg_tracking - avg_best) > avg_tracking

\* a best exit exactly one tenth better than the window's average: no
C17_Witness ==
    /\ exit_ev.ret = "Worth"
    /\ metric_values = <<100>>
    /\ exit_tracker[exit_ev.best_ip] = ExitTracker(0, 90, 1)
    /\ ~exit_ev.value

\* the code update_metric_value returns when the best exit is the tracked one
CodeOfTracked(sel, full) ==
    IF sel.selected_id = sel.tracking_exit
    THEN (IF full THEN "ContinueCurrentReset" ELSE "ContinueCurrent")
    ELSE (IF full THEN "SwitchExit" ELSE "ContinueTracking")

\* C18: on a tick where the selected exit is up, the tick's best exit is not
\* the tracked one and its running average is not more than 10% better than
\* the window's, tracking_exit and selected_id stay as they are, the window
\* is not cleared by a tracking reset, and the code is the one a best exit
\* equal to the tracked one would have produced.
C18_NoTrackerPingPong ==
    [][exit_ev'.ten_percent = "not_better"
       => /\ selected_exit'.tracking_exit = selected_exit.tracking_exit
          /\ selected_exit'.selected_id = selected_exit.selected_id
          /\ exit_ev'.code # "ResetTracking"
          /\ exit_ev'.code = CodeOfTracked(selected_exit, exit_ev'.was_full)]_vars

\* C19: on a tick where the selected exit is up, the tick's best exit is not
\* the tracked one and its running average is more than 10% better than the
\* window's, the code is ResetTracking, with a full window or not; after the
\* tick tracking_exit is the best exit and selected_id, selected_metric and
\* selected_degradation are as before it.
C19_ResetTrackingEffect ==
    [][exit_ev'.ten_percent = "better"
       => /\ exit_ev'.code = "ResetTracking"
          /\ exit_ev'.ret = "Ok"
          /\ selected_exit'.tracking_exit = exit_ev'.best_exit
          /\ selected_exit'.tracking_exit # selected_exit.tracking_exit
          /\ selected_exit'.selected_id = selected_exit.selected_id
          /\ selected_exit'.selected_id_metric = selected_exit.selected_id_metric
          /\ selected_exit'.selected_id_degradation
                = selected_exit.selected_id_degradation]_vars

\* the tracking moved to a much better exit on a tick that found the window full
C19_Witness ==
    /\ Ticked
    /\ exit_ev.ret = "Ok"
    /\ exit_ev.ten_percent = "better"
    /\ exit_ev.was_full
    /\ exit_ev.code = "ResetTracking"
    /\ selected_exit.tracking_exit = exit_ev.best_exit
    /\ selected_exit.tracking_exit # selected_exit.selected_id
    /\ IsSome(selected_exit.selected_id_degradation)

\* C20: the window never holds more than METRIC_ENTRIES entries, whatever
\* route snapshots the ticks are given.
C20_WindowBound == Len(metric_values) <= METRIC_ENTRIES

\* a tick found the window full and left one entry in it
C20_Witness ==
    /\ Ticked
    /\ exit_ev.ret = "Ok"
    /\ exit_ev.was_full
    /\ ~exit_ev.is_exit_down
    /\ Len(metric_values) = 1

\* C21: a tick that changes selected_id away from an exit that is still up
\* (a switch, not a failover) comes only after at least METRIC_ENTRIES
\* successful ticks since the tick that last changed selected_id.  Checked
\* under SpecHold, whose runs are long enough for a switch after a switch.
C21_MinimumHoldTime ==
    [][(/\ exit_ev'.ret = "Ok"
        /\ exit_ev'.changed
        /\ ~exit_ev'.claim_down)
       => exit_ev.held >= METRIC_ENTRIES]_vars

\* a second switch, exactly METRIC_ENTRIES successful ticks after the first
C21_Witness ==
    /\ exit_ev.ret = "Ok"
    /\ exit_ev.changed
    /\ ~exit_ev.claim_down
    /\ exit_ev.switches = 2
    /\ exit_ticks = HoldTicks

\* on every tick since the selection the exit was up and the lowest metric
\* was one and the same other exit's, never 0 and always more than 10% below
\* every babel metric of the selected exit
OtherIsMuchLower ==
    /\ exit_ev.run.lower_all
    /\ Cardinality(exit_ev.run.ips) = 1
    /\ exit_ev.run.other_low # 0
    /\ 10 * exit_ev.run.other_high < 9 * exit_ev.run.cur_low

SubnetRoutes(routes) ==
    SelectSeq(routes, LAMBDA r : r.prefix_ip.v4 = ExitSubnet.v4
                                   /\ NetworkContains(ExitSubnet, r.prefix_ip))

\* the lowest metric of the routes, 65535 without a route
LowestMetric(routes) ==
    SetMin({U16_MAX} \cup {routes[i].metric : i \in DOMAIN routes})

\* C23: get_exit_metrics reports as best metric the minimum of the metrics
\* of the routes into the exit subnet, replaced by the adjusted metric of the
\* current exit, with the current exit as best exit, exactly when the
\* current exit is up and its adjusted metric is strictly lower; without the
\* replacement the best exit is an exit that shows the minimum; the routes
\* outside the subnet change neither the metrics reported nor any
\* ExitTracker.  Checked under SpecMetrics.
C23_BestExitSelection ==
    exit_ev.ret = "Metrics" =>
        LET routes == exit_ev.routes
            inside == SubnetRoutes(routes)
            low == LowestMetric(inside)
            cur == selected_exit.selected_id
            adjusted == UnwrapOr(selected_exit.selected_id_metric, U16_MAX)
            up == /\ IsSome(cur)
                  /\ \E i \in DOMAIN inside : /\ inside[i].prefix_ip = Unwrap(cur)
                                               /\ inside[i].metric # U16_MAX
            replaced == up /\ adjusted < low
            alone == get_exit_metrics(inside, ExitSubnet, cur, selected_exit.tracking_exit,
                                      cur, adjusted, exit_ev.map_before)
        IN  /\ exit_ev.em.best_exit_met = IF replaced THEN adjusted ELSE low
            /\ replaced => exit_ev.em.best_exit = cur
            /\ ~replaced =>
                   IF low = U16_MAX THEN exit_ev.em.best_exit = None
                   ELSE \E i \in DOMAIN inside :
                           /\ inside[i].metric = low
                           /\ exit_ev.em.best_exit = Some(inside[i].prefix_ip)
            /\ exit_ev.em = alone.em
            /\ exit_tracker = alone.exit_map
            /\ \A ip \in DOMAIN exit_tracker :
                   \/ ip \in DOMAIN exit_ev.map_before
                   \/ \E i \in DOMAIN inside : inside[i].prefix_ip = ip

\* a snapshot with a route outside the subnet that is lower than every
\* route into it, and a current exit whose adjusted metric replaces the best
C23_Witness ==
    /\ exit_ev.ret = "Metrics"
    /\ exit_ev.em.best_exit = selected_exit.selected_id
    /\ exit_ev.em.best_exit_met = 80
    /\ ~exit_ev.em.is_exit_down
    /\ exit_ev.em.cur_exit_babel_met = 100
    /\ \E i \in DOMAIN exit_ev.routes : exit_ev.routes[i].prefix_ip = NotExit

(***************************************************************************)
(* Claims about the blockchain oracle, checked under SpecOracle.           *)
(***************************************************************************)
\* C1: when the cached balance is non-zero and the full node reports zero,
\* the Oracle writes the zero if and only if a zero window was opened by
\* ZeroWindowStart at most 300 s before; with no window, or an expired one,
\* the cached balance stays as it was.
C1_ZeroBalanceWindow ==
    (/\ oracle_ev.op = "OracleReply"
     /\ oracle_ev.failed = {}
     /\ oracle_ev.zeroed)
    => (payment_settings.balance = 0
          <=> (/\ IsSome(zero_window)
               /\ now - Unwrap(zero_window) <= ZERO_WINDOW_TIME))

\* C2: an Oracle tick one of whose four queries failed or timed out changes
\* none of balance, nonce, gas_price, net_version, pay_threshold and
\* close_threshold.
C2_OracleAllOrNothing ==
    [][(oracle_ev'.op = "OracleReply" /\ oracle_ev'.failed # {})
       => /\ payment_settings'.balance = payment_settings.balance
          /\ payment_settings'.nonce = payment_settings.nonce
          /\ payment_settings'.gas_price = payment_settings.gas_price
          /\ payment_settings'.net_version = payment_settings.net_version
          /\ payment_settings'.pay_threshold = payment_settings.pay_threshold
          /\ payment_settings'.close_threshold = payment_settings.close_threshold]_vars

\* the gas price query alone failed; the zero balance that came with it,
\* inside an open zero window, and the chain id, with none latched, were dropped
C2_Witness ==
    /\ oracle_ev.op = "OracleReply"
    /\ oracle_ev.failed = {"gas_price"}
    /\ oracle_ev.zeroed
    /\ IsSome(zero_window)
    /\ payment_settings.balance = 5
    /\ oracle_ev.net_version = Ok(<<"1">>)
    /\ payment_settings.net_version = None

\* C3: once a parsed net_version is stored, no later reply of the full node,
\* equal, different or unparseable, changes it.
C3_NetVersionWriteOnce ==
    [][IsSome(payment_settings.net_version)
       => payment_settings'.net_version = payment_settings.net_version]_vars

\* chain id 1 is latched and a complete Oracle reply carrying chain id 3 was taken
C3_Witness ==
    /\ oracle_ev.op = "OracleReply"
    /\ oracle_ev.failed = {}
    /\ oracle_ev.net_version = Ok(<<"3">>)
    /\ payment_settings.net_version = Some(1)

OracleUpdated == oracle_ev.op = "OracleReply" /\ oracle_ev.failed = {}

Min(a, b) == IF a <= b THEN a ELSE b
Max(a, b) == IF a >= b THEN a ELSE b

\* C12: after an Oracle update whose gas price query reported g, gas_price is
\* floor(21 g / 20) brought into [min_gas, max_gas], pay_threshold is
\* 21000 * gas_price * dynamic_fee_multiplier and close_threshold is
\* -4 * pay_threshold.
C12_ThresholdDerivation ==
    OracleUpdated =>
        LET g == OkValue(oracle_ev.gas_price)
            ps == payment_settings
        IN  /\ ps.gas_price = Max(ps.min_gas, Min((21 * g) \div 20, ps.max_gas))
            /\ ps.pay_threshold = 21000 * ps.gas_price * ps.dynamic_fee_multiplier
            /\ ps.close_threshold = 0 - 4 * ps.pay_threshold

\* the full node reported 39: 39 + 1 = 40 is inside the limits
C12_Witness ==
    /\ OracleUpdated
    /\ oracle_ev.gas_price = Ok(39)
    /\ payment_settings.gas_price = 40
    /\ payment_settings.pay_threshold = 21000 * 40 * payment_settings.dynamic_fee_multiplier

\* C13: after an Oracle update under settings with 0 < min_gas <= max_gas and
\* dynamic_fee_multiplier > 0, close_threshold < 0 < pay_threshold, whatever
\* gas price the full node reported.
C13_ThresholdSigns ==
    (/\ OracleUpdated
     /\ payment_settings.min_gas > 0
     /\ payment_settings.min_gas <= payment_settings.max_gas
     /\ payment_settings.dynamic_fee_multiplier > 0)
    => /\ payment_settings.close_threshold < 0
       /\ 0 < payment_settings.pay_threshold

\* the full node reported a gas price of 0 and min_gas carried the thresholds
C13_Witness ==
    /\ OracleUpdated
    /\ oracle_ev.gas_price = Ok(0)
    /\ payment_settings.min_gas > 0
    /\ payment_settings.gas_price = payment_settings.min_gas
    /\ payment_settings.pay_threshold > 0

\* C14: after k local sends since boot and one successful Oracle refresh the
\* cached nonce is at least k, or, if the chain reported more than that, the
\* value the chain reported.  Checked under SpecNonce.
C14_NonceAfterRefresh ==
    OracleUpdated =>
        LET chain == OkValue(oracle_ev.nonce)
        IN  IF chain > fee_sends
            THEN payment_settings.nonce = chain
            ELSE payment_settings.nonce >= fee_sends

(***************************************************************************)
(* Claims about the operator fee manager, checked under SpecFee.           *)
(***************************************************************************)
\* C9: whenever a tick broadcasts an operator payment, the value of the
\* transaction is the amount owed at that tick: the seconds elapsed since
\* last_payment_time times operator_fee.
C9_FeeAmountIsOwed ==
    (fee_ev.op = "Tick" /\ fee_ev.act = "Send") => fee_ev.value = fee_ev.owed

\* C10: once a tick has broadcast an operator payment, no later tick
\* broadcasts another one before that broadcast has resolved.
C10_OnePaymentInFlight ==
    (fee_ev.op = "Tick" /\ fee_ev.act = "Send") => fee_ev.unresolved = 0

\* C11: a tick that broadcasts a transaction leaves the cached nonce above
\* the nonce the transaction carries, and no two broadcasts that are both
\* unresolved, with no Oracle refresh between them, carry the same nonce.
C11_NonceUniqueSends ==
    /\ (fee_ev.op = "Tick" /\ fee_ev.act = "Send")
          => payment_settings.nonce > fee_ev.nonce
    /\ \A i, j \in DOMAIN fee_broadcasts :
          i # j => fee_broadcasts[i].nonce # fee_broadcasts[j].nonce

\* C24 window restart content: on every tick where update_metric_value
\* returns ContinueCurrentReset, SwitchExit or ResetTracking, the window it
\* leaves holds exactly one entry, the metric recorded on this tick, the
\* window's capacity is still METRIC_ENTRIES, and every ExitTracker is zero
C24_WindowRestartContent ==
    (exit_ev.ret \in {"Ok", "Err"} /\ exit_ev.code \in RestartCodes)
        => /\ IsSome(exit_ev.restart)
           /\ Unwrap(exit_ev.restart).metric_vec = <<Unwrap(exit_ev.restart).recorded>>
           /\ Unwrap(exit_ev.restart).capacity = METRIC_ENTRIES
           /\ Unwrap(exit_ev.restart).nonzero = {}

\* a tracked exit replaced by a better one: the window restarts with the
\* metric of the new best exit while two exits have trackers to zero
C24_Witness ==
    /\ exit_ev.ret = "Ok"
    /\ exit_ev.code = "ResetTracking"
    /\ IsSome(exit_ev.restart)
    /\ Unwrap(exit_ev.restart).metric_vec = <<Unwrap(exit_ev.restart).recorded>>
    /\ Cardinality(DOMAIN exit_tracker) >= 2
    /\ metric_values = Unwrap(exit_ev.restart).metric_vec

\* C25 operator fee inertness: while operator_address is unset or
\* operator_fee is zero, whatever pay_threshold is, the fee manager has
\* broadcast no transaction and last_payment_time is as it was at the start
C25_OperatorFeeInert ==
    (IsNone(operator_settings.operator_address) \/ operator_settings.operator_fee = 0)
        => /\ fee_sends = 0
           /\ last_payment_time = 0

C27_MissingKeyRefused ==
    (fee_ev.op = "Tick" /\ IsNone(payment_settings.eth_private_key))
        => fee_ev.act = "Return" /\ ~fee_panicked

(***************************************************************************)
(* Claims about Identity, checked under SpecIdentity.                      *)
(***************************************************************************)
SameTriple(a, b) ==
    /\ a.mesh_ip = b.mesh_ip
    /\ a.eth_address = b.eth_address
    /\ a.wg_public_key = b.wg_public_key

\* C28 identity equality ignores nickname: two identities with the same
\* mesh_ip, eth_address and wg_public_key are equal and have the same hash
\* whatever their nicknames are, and two identities that differ in one of
\* the three fields are unequal
C28_EqualityIgnoresNickname ==
    id_ev.op = "Compare"
        => /\ SameTriple(id_ev.a, id_ev.b)
                => id_ev.eq /\ id_ev.hash_a = id_ev.hash_b
           /\ ~SameTriple(id_ev.a, id_ev.b) => ~id_ev.eq

\* two identities that differ in their nickname alone have been compared
C28_Witness ==
    /\ id_ev.op = "Compare"
    /\ SameTriple(id_ev.a, id_ev.b)
    /\ id_ev.a.nickname = Some("alice")
    /\ id_ev.b.nickname = Some("bob")
    /\ id_ev.eq
    /\ id_ev.hash_a = id_ev.hash_b

(***************************************************************************)
(* Claims about the neighbor chain of the common loop, checked under       *)
(* SpecLoop.                                                               *)
(***************************************************************************)
\* the positions of the log at which the tick's event is one of those given
Positions(events, t) ==
    {i \in 1..Len(loop_ev.log) : loop_ev.log[i][1] \in events /\ loop_ev.log[i][2] = t}

\* every event of the first kind has an event of the second kind before it
Follows(later, earlier, t) ==
    \A i \in Positions(later, t) : \E j \in Positions(earlier, t) : j < i

\* C29 tick ordering: for every tick, SendUpdate is sent to DebtKeeper, and
\* delivered, only after TrafficWatcher has completed the Watch of that
\* tick, with Ok or with Err, and Watch is sent only after the reply to the
\* GetNeighbors of that tick
C29_TickOrdering ==
    \A t \in 1..MaxLoopTicks :
        /\ Follows({"SendUpdate"}, {"WatchOk", "WatchErr"}, t)
        /\ Follows({"Delivered"}, {"WatchOk", "WatchErr"}, t)
        /\ Follows({"Delivered"}, {"SendUpdate"}, t)
        /\ Follows({"WatchOk", "WatchErr"}, {"Watch"}, t)
        /\ Follows({"Watch"}, {"GetNeighborsReply"}, t)
        /\ Follows({"GetNeighborsReply"}, {"GetNeighbors"}, t)

\* DebtKeeper has taken the SendUpdate of the first tick, whose Watch failed,
\* while the Watch of the second tick is still in the mailbox of
\* TrafficWatcher
C29_Witness ==
    /\ loop_ev.op = "SendUpdateDelivered"
    /\ loop_ev.tick = 1
    /\ Positions({"WatchErr"}, 1) # {}
    /\ Len(loop_chains) >= 2
    /\ loop_chains[2] = "Watch"
    /\ tw_mailbox = <<2>>

(***************************************************************************)
(* Claims about DebtKeeper and PaymentController, checked under SpecDebt.  *)
(***************************************************************************)
\* the payments of a neighbor that are on their way: as an intent, as a
\* broadcast, or as a report DebtKeeper has not taken yet
Outstanding(n) == {i \in 1..Len(payments) : payments[i].to = n}

\* C30 at most one payment in flight per neighbor: in every state every
\* neighbor has at most one outstanding payment, and a SendUpdate emits a
\* MakePayment only for neighbors whose payment_in_flight was empty
C30_OnePaymentInFlight ==
    /\ [](\A n \in Neighbors : Cardinality(Outstanding(n)) <= 1)
    /\ [][debt_ev'.op = "SendUpdate"
            => \A n \in debt_ev'.emitted : IsNone(debt_data[n].payment_in_flight)]_vars

\* the sixth step is a SendUpdate that emits the payment to n1 a second
\* time: the first one was broadcast and failed, and its report cleared
\* payment_in_flight
C30_Witness ==
    /\ debt_ev.op = "SendUpdate"
    /\ debt_ev.emitted = {"n1"}
    /\ debt_steps = 6
    /\ payment_settings.nonce = 1
    /\ debt_data["n2"].debt = 0
    /\ Cardinality(Outstanding("n1")) = 1
    /\ debt_data["n1"].payment_in_flight = Some(12)

\* the action DebtKeeper derives for a neighbor at the thresholds in force
ActionOf(ledger) ==
    DebtAction(ledger, payment_settings.pay_threshold, payment_settings.close_threshold)

\* C31 incoming payment idempotence: the report of a txid already applied
\* for its neighbor leaves every debt, and so every derived action, as it
\* was, the report of a fresh txid changes the debt of its neighbor alone,
\* and no txid has changed the debt of a neighbor more than once
C31_IncomingIdempotent ==
    /\ [](\A n \in Neighbors, t \in Txids : inbound.changes[n][t] <= 1)
    /\ [][debt_ev'.op = "IncomingPayment"
            => /\ debt_ev'.replay
                    => /\ debt_data' = debt_data
                       /\ \A n \in Neighbors :
                              ActionOf(debt_data'[n]) = ActionOf(debt_data[n])
               /\ ~debt_ev'.replay
                    => /\ debt_data'[debt_ev'.from].debt # debt_data[debt_ev'.from].debt
                       /\ \A n \in Neighbors \ {debt_ev'.from} :
                              debt_data'[n] = debt_data[n]]_vars

\* the report of t1 from n1 has come a second time, after traffic had moved
\* the debt of n1 in between; the same txid was also applied for n2
C31_Witness ==
    /\ debt_ev.op = "IncomingPayment"
    /\ debt_ev.from = "n1"
    /\ debt_ev.txid = "t1"
    /\ debt_ev.replay
    /\ inbound.changes["n1"]["t1"] = 1
    /\ inbound.changes["n2"]["t1"] = 1
    /\ debt_data["n1"].debt = -6

\* C34 tracker accumulation bound: in every reachable state every
\* ExitTracker has ticker_len at most METRIC_ENTRIES and running_total at
\* most METRIC_ENTRIES * 65535, for every sequence of snapshots, the ticks
\* on which set_best_exit returns an error included
C34_TrackerBound ==
    \A ip \in DOMAIN exit_tracker :
        /\ exit_tracker[ip].ticker_len <= METRIC_ENTRIES
        /\ exit_tracker[ip].running_total <= METRIC_ENTRIES * U16_MAX

\* C35 panic freedom of the switching path: a single ExitServer started
\* with unset selection, empty window and empty tracker map never reaches a
\* failing expect, unwrap or panic!, nor a subtraction below zero, in any
\* sequence of set_best_exit calls on arbitrary snapshots
C35_NoPanicSingleServer ==
    /\ ~panicked
    /\ exit_ev.ret \in {"Init", "Ok", "Err"}
    /\ exit_ev.ret = "Ok" => IsSome(selected_exit.selected_id_metric)

\* the last call of a run changes the tracked exit on a window that holds
\* entries, with a degradation already measured
C35_Witness ==
    /\ exit_ticks = METRIC_ENTRIES + MaxExtraTicks
    /\ exit_ev.ret = "Ok"
    /\ exit_ev.code = "ResetTracking"
    /\ IsSome(selected_exit.selected_id_degradation)
    /\ metric_values # <<>>

\* C36 the selected exit is a live candidate: after every call of
\* set_best_exit that returns Ok, the address returned is selected_id, lies
\* in the exit subnet and has a route of metric below 65535 in the snapshot
\* of that call
C36_SelectedIsLiveCandidate ==
    exit_ev.ret = "Ok" =>
        /\ IsSome(exit_ev.ip)
        /\ exit_ev.ip = selected_exit.selected_id
        /\ check_ip_in_subnet(Unwrap(exit_ev.ip), ExitSubnet)
        /\ exit_ev.live

\* a full window ends with a switch to another exit, which is returned
C36_Witness ==
    /\ exit_ev.ret = "Ok"
    /\ exit_ev.code = "SwitchExit"
    /\ exit_ev.changed
    /\ exit_ev.ip = selected_exit.selected_id
    /\ exit_ev.live

\* C37 no effect on error: a call of set_best_exit that returns an error
\* leaves the selection of the ExitServer, the window and every ExitTracker
\* exactly as they were before the call
C37_NoEffectOnError ==
    [][exit_ev'.ret = "Err" =>
          /\ selected_exit' = selected_exit
          /\ metric_values' = metric_values
          /\ exit_tracker' = exit_tracker]_vars

(***************************************************************************)
(* Claims about ExitServers that share the statics, checked under          *)
(* SpecShared.                                                             *)
(***************************************************************************)
\* C33 initial-setup guard across shared state: whenever set_best_exit has
\* run for an ExitServer whose selected_id was None, the window it found was
\* empty and the call did not panic, also when two ExitServers are ticked
\* against the same window and tracker map
C33_InitialSetupGuard ==
    (exit_ev.ret # "Init" /\ exit_ev.unset)
        => exit_ev.window = <<>> /\ exit_ev.ret # "Panic"

(***************************************************************************)
(* Claims about the monitor of the routing daemon, checked under SpecBabel.*)
(***************************************************************************)
RECURSIVE OwnFrom(_, _, _)
OwnFrom(val, tokens, i) ==
    IF i + 1 > Len(tokens) THEN Err
    ELSE IF tokens[i] = val THEN Ok(tokens[i + 1])
    ELSE OwnFrom(val, tokens, i + 1)

\* the token that follows the keyword val itself in the line
own_keyword_val(val, line) == OwnFrom(val, Split(line, " "), 1)

\* the value of the token after the keyword itself
OwnValue(val, entry) == OkValue(own_keyword_val(val, entry))

\* a Neighbour with every field taken from behind its own keyword
OwnNeighbour(entry) ==
    [id |-> OwnValue(<<"n", "e", "i", "g", "h", "b", "o", "u", "r">>, entry),
     iface |-> OwnValue(<<"i", "f">>, entry),
     reach |-> OkValue(from_str_radix_16(OwnValue(<<"r", "e", "a", "c", "h">>, entry))),
     txcost |-> OkValue(ParseUInt(OwnValue(<<"t", "x", "c", "o", "s", "t">>, entry), U16_MAX)),
     rxcost |-> OkValue(ParseUInt(OwnValue(<<"r", "x", "c", "o", "s", "t">>, entry), U16_MAX)),
     rtt |-> OkValue(ParseF32(OwnValue(<<"r", "t", "t">>, entry))),
     rttcost |-> OkValue(ParseUInt(OwnValue(<<"r", "t", "t", "c", "o", "s", "t">>, entry), U16_MAX)),
     cost |-> OkValue(ParseUInt(OwnValue(<<"c", "o", "s", "t">>, entry), U16_MAX))]

\* a Route of an `add route` line with every field taken from behind its
\* own keyword
OwnRoute(entry) ==
    [id |-> OwnValue(<<"r", "o", "u", "t", "e">>, entry),
     iface |-> OwnValue(<<"i", "f">>, entry),
     xroute |-> FALSE,
     installed |-> OwnValue(<<"i", "n", "s", "t", "a", "l", "l", "e", "d">>, entry) = <<"y", "e", "s">>,
     neigh_ip |-> OwnValue(<<"v", "i", "a">>, entry),
     prefix |-> OwnValue(<<"p", "r", "e", "f", "i", "x">>, entry),
     metric |-> OkValue(ParseUInt(OwnValue(<<"m", "e", "t", "r", "i", "c">>, entry), U16_MAX)),
     refmetric |-> OkValue(ParseUInt(OwnValue(<<"r", "e", "f", "m", "e", "t", "r", "i", "c">>, entry), U16_MAX)),
     price |-> OkValue(ParseU64(OwnValue(<<"p", "r", "i", "c", "e">>, entry)))]

\* C38 field extraction: for every `add neighbour` and `add route` line of
\* a dump reply, each parsed field is the value of the token that follows
\* the field's own keyword in the line, not of the token after a keyword
\* that merely contains the name
C38_FieldExtraction ==
    /\ babel.op = "parse_neighs" =>
           LET entries == EntriesWith(babel.reply, <<"a", "d", "d", " ", "n", "e", "i", "g", "h", "b", "o", "u", "r">>)
           IN  /\ IsOk(babel.out)
               /\ OkValue(babel.out) = [i \in 1..Len(entries) |-> OwnNeighbour(entries[i])]
    /\ babel.op = "parse_routes" =>
           LET entries == EntriesWith(babel.reply, <<"a", "d", "d", " ", "r", "o", "u", "t", "e">>)
               parsed == IF IsOk(babel.out)
                         THEN SelectSeq(OkValue(babel.out), LAMBDA r : ~r.xroute)
                         ELSE <<>>
           IN  /\ IsOk(babel.out)
               /\ parsed = [i \in 1..Len(entries) |-> OwnRoute(entries[i])]

\* C39 read termination: Babel::read does not go on reading once the bytes
\* received contain a terminator line (ok, no or bad), however the reply is
\* cut into chunks: it has returned by then
C39_ReadTermination ==
    (babel.op = "Read" /\ contains_terminator(babel.received)) => babel.pc = "done"

=============================================================================
